---------------------------- MODULE Spec2Model ----------------------------
(***************************************************************************)
(* Ledger and balance engine of btg-pactual-funds.                         *)
(*                                                                         *)
(* The model follows app/services/fund_service.py: FundService's           *)
(* subscribe_to_fund and cancel_fund_subscription run as request handlers  *)
(* that interleave at every await (each database call).  The database is   *)
(* MongoDB: the funds, users and transactions collections, the unique      *)
(* index on transactions.transaction_id, and the multi-document            *)
(* transaction (session) both handlers wrap their two writes in.           *)
(***************************************************************************)
EXTENDS Integers, Sequences, FiniteSets, TLC

(***************************************************************************)
(* Bounds of the model.                                                    *)
(***************************************************************************)
\* Number of handler invocations in one behaviour.
MaxCalls == 3

\* Concurrent request handlers (FastAPI serves requests as asyncio tasks).
Procs == {1, 2}

(***************************************************************************)
(* Program constants.                                                      *)
(***************************************************************************)
\* user_service.py:38  "balance": 500000
InitialBalance == 500000

\* Documents of the users collection (their _id) and ids requests may carry.
\* A user id is a uuid4 string (user_service.py:36); it is kept as the pair
\* <<its first six characters, the rest>>.
UserIds == {<<"3f2a91", "01">>}
NoSuchUser == <<"3f2a91", "ff">>
\* user_id[:6] (fund_service.py:152, 238)
IdPrefix(user_id) == user_id[1]

\* Documents of the funds collection and ids requests may carry.
NoSuchFund == "fund-x"
\* Two funds of initialize_default_funds (fund_service.py:341,344), which
\* create_fund stores with is_active True, and one fund document whose
\* is_active is false (Fund.is_active, fund.py:16), the case line 132 checks.
FundsInit ==
    [f \in {"fund-1", "fund-2", "fund-3"} |->
        CASE f = "fund-1" -> [name |-> "FPV_BTG_PACTUAL_RECAUDADORA",
                              minimum_amount |-> 75000, is_active |-> TRUE]
          [] f = "fund-2" -> [name |-> "FDO-ACCIONES",
                              minimum_amount |-> 250000, is_active |-> TRUE]
          [] f = "fund-3" -> [name |-> "DEUDAPRIVADA",
                              minimum_amount |-> 50000, is_active |-> FALSE]]

\* Request inputs.  SubscriptionRequest.amount is an int with gt=0
\* (user_balance.py:23).
ReqFunds == {"fund-1", "fund-2", "fund-3", NoSuchFund}
ReqUsers == UserIds \cup {NoSuchUser}
Amounts == {200000, 300000}

\* find_one returns None when no document matches.
None == [none |-> TRUE]

VARIABLES
    funds,          \* db.funds: _id -> document
    users,          \* db.users: _id -> [balance, subscribed_funds]
    transactions,   \* db.transactions: committed documents, in commit order
    now,            \* the second datetime.utcnow() last returned
    uuids,          \* number of uuid.uuid4() values drawn so far
    calls,          \* number of handler invocations so far
    pc,             \* each handler's position
    local           \* each handler's local variables

vars == <<funds, users, transactions, now, uuids, calls, pc, local>>

(***************************************************************************)
(* MongoDB and Python helpers.                                             *)
(***************************************************************************)
\* x in list
Contains(list, x) == \E i \in 1..Len(list) : list[i] = x

\* $addToSet: appends x unless the array already holds it.
AddToSet(list, x) == IF Contains(list, x) THEN list ELSE Append(list, x)

\* $pull: removes every element equal to x.
Pull(list, x) == SelectSeq(list, LAMBDA y : y # x)

\* db.<collection>.find_one({"_id": id})
FindOne(collection, id) ==
    IF id \in DOMAIN collection THEN collection[id] ELSE None

\* The fold both handlers and both read-side queries run over a cursor:
\* += amount for a SUBSCRIPTION, -= amount for a CANCELLATION.
RECURSIVE Fold(_)
Fold(txs) ==
    IF txs = <<>> THEN 0
    ELSE LET tx == txs[Len(txs)]
             rest == Fold(SubSeq(txs, 1, Len(txs) - 1))
         IN  IF tx.transaction_type = "SUBSCRIPTION" THEN rest + tx.amount
             ELSE IF tx.transaction_type = "CANCELLATION" THEN rest - tx.amount
             ELSE rest

\* db.transactions.find({"user_id", "fund_id", "status": "COMPLETED"})
FindUserFundCompleted(txs, user_id, fund_id) ==
    SelectSeq(txs, LAMBDA tx : /\ tx.user_id = user_id
                               /\ tx.fund_id = fund_id
                               /\ tx.status = "COMPLETED")

\* invested_amount of cancel_fund_subscription
InvestedAmount(txs, user_id, fund_id) ==
    Fold(FindUserFundCompleted(txs, user_id, fund_id))

\* datetime.utcnow() truncated to the second by strftime('%Y%m%d_%H%M%S'):
\* the second of the last reading, or a later one.  Only consecutive readings
\* being in the same second or not matters, so "later" is the next second.
UtcNow == {now, now + 1}

\* transaction_id = f"TXN_{utcnow:%Y%m%d_%H%M%S}_{user_id[:6]}"
TransactionId(clock, user_id) == <<clock, IdPrefix(user_id)>>

\* transaction_dict of both handlers
TransactionDict(uuid, clock, user_id, fund_id, fund, type, amount) ==
    [id |-> uuid,
     transaction_id |-> TransactionId(clock, user_id),
     user_id |-> user_id,
     fund_id |-> fund_id,
     fund_name |-> fund.name,
     transaction_type |-> type,
     amount |-> amount,
     status |-> "COMPLETED",
     created_at |-> clock]

NoTransaction == [none |-> TRUE]

\* A request that carries no bearer token (a call made on the service itself).
NoToken == <<"", "">>

\* A handler's locals before it has assigned any.  token is the user id in the
\* payload of the request's bearer token, for a request that came through a
\* router; limit and offset are the query parameters of a history request and
\* history is the list of transactions it returns.  router is the module of
\* the catalog route that serves the request, query its query parameters,
\* listing the list of funds it returns and response the HTTP status of its
\* answer.
IdleLocal ==
    [op |-> "none", user_id |-> NoSuchUser, fund_id |-> NoSuchFund, amount |-> 0,
     fund |-> None, user |-> None, invested_amount |-> 0,
     transaction_dict |-> NoTransaction, conflict |-> FALSE,
     fault |-> "none", result |-> "none", token |-> NoToken,
     limit |-> 0, offset |-> 0, history |-> <<>>,
     router |-> "none", query |-> None, listing |-> <<>>, response |-> 0,
     operation |-> "none", user_data |-> None]

Init ==
    /\ funds = FundsInit
    /\ users = [u \in UserIds |->
                   [balance |-> InitialBalance, subscribed_funds |-> <<>>]]
    /\ transactions = <<>>
    /\ now = 0
    /\ uuids = 0
    /\ calls = 0
    /\ pc = [p \in Procs |-> "idle"]
    /\ local = [p \in Procs |-> IdleLocal]

\* The HTTP status a catalog route answers with when the service call ends
\* in result.  None from get_fund_by_id is 404 in both routers
\* (fund_routes.py:72-76, funds.py:42-46).  funds.py turns every exception
\* of get_all_funds and create_fund into 500 (29-33, 57-61); fund_routes.py
\* does so in get_all_funds (55-60), and its create_fund (79-100) has no
\* handler, so an exception that is not an HTTPException leaves the route
\* and the server answers 500.
Response(router, result) ==
    IF router = "none" THEN 0
    ELSE IF result = "Fund" /\ router = "fund_routes" THEN 201
    ELSE IF result \in {"Fund", "Funds"} THEN 200
    ELSE IF result = "FundNotFound" THEN 404
    ELSE 500

\* A handler that raises or returns: its outcome is what the route sees.
Finish(p, loc, result) ==
    /\ pc' = [pc EXCEPT ![p] = "done"]
    /\ local' = [local EXCEPT ![p] =
                    [loc EXCEPT !.result = result,
                                !.response = Response(loc.router, result)]]

Goto(p, loc, label) ==
    /\ pc' = [pc EXCEPT ![p] = label]
    /\ local' = [local EXCEPT ![p] = loc]

\* The transactions of sessions still open, other than p's own.
OpenSessions(p) == {q \in Procs \ {p} : pc[q] \in {"sub_update", "can_update"}}

\* Mutation of DuplicateKey: the collection has no unique index.
DuplicateKey_NoUniqueIndex(p, doc) == FALSE

\* insert_one under the unique index on transaction_id (connection.py:83):
\* the key is taken when a committed document or another open transaction
\* holds it.
DuplicateKey(p, doc) ==
    \/ \E i \in 1..Len(transactions) :
          transactions[i].transaction_id = doc.transaction_id
    \/ \E q \in OpenSessions(p) :
          local[q].transaction_dict.transaction_id = doc.transaction_id

\* Committing p's session makes every other open transaction that will write
\* the same user document conflict (snapshot isolation: WriteConflict).
MarkConflicts(p, loc) ==
    [q \in Procs |->
        IF q = p THEN loc
        ELSE IF q \in OpenSessions(p) /\ local[q].user_id = loc.user_id
             THEN [local[q] EXCEPT !.conflict = TRUE]
             ELSE local[q]]

(***************************************************************************)
(* FundService.subscribe_to_fund                                           *)
(***************************************************************************)
Call(p, op, user_id, fund_id, amount) ==
    /\ pc[p] \in {"idle", "done"}
    /\ calls < MaxCalls
    /\ calls' = calls + 1
    /\ Goto(p, [IdleLocal EXCEPT !.op = op, !.user_id = user_id,
                                 !.fund_id = fund_id, !.amount = amount],
            IF op = "subscribe" THEN "sub_find_fund" ELSE "can_find_fund")
    /\ UNCHANGED <<funds, users, transactions, now, uuids>>

\* lines 127-133
SubFindFund(p) ==
    /\ pc[p] = "sub_find_fund"
    /\ LET fund == FindOne(funds, local[p].fund_id)
           loc == [local[p] EXCEPT !.fund = fund]
       IN  IF fund = None THEN Finish(p, loc, "FundNotFound")
           ELSE IF ~fund.is_active THEN Finish(p, loc, "FundInactive")
           ELSE Goto(p, loc, "sub_find_user")
    /\ UNCHANGED <<funds, users, transactions, now, uuids, calls>>

\* Mutation of SubscribeAmountCheck: the balance check is left out.
SubscribeAmountCheck_NoBalanceCheck(fund, user, amount) ==
    IF amount < fund.minimum_amount THEN "BelowMinimum" ELSE "ok"

\* Mutation of SubscribeAmountCheck: the balance is checked before the minimum.
SubscribeAmountCheck_BalanceFirst(fund, user, amount) ==
    IF user.balance < amount THEN "InsufficientFunds"
    ELSE IF amount < fund.minimum_amount THEN "BelowMinimum"
    ELSE "ok"

\* lines 140-149: the two checks on the amount
SubscribeAmountCheck(fund, user, amount) ==
    IF amount < fund.minimum_amount THEN "BelowMinimum"
    ELSE IF user.balance < amount THEN "InsufficientFunds"
    ELSE "ok"

\* Mutation of SubFindUser: the balance is debited before the amount is
\* checked, so a rejected call leaves the debit behind.
SubFindUser_DebitBeforeCheck(p) ==
    /\ pc[p] = "sub_find_user"
    /\ LET user == FindOne(users, local[p].user_id)
           loc == [local[p] EXCEPT !.user = user]
       IN  IF user = None
           THEN Finish(p, loc, "UserNotFound") /\ UNCHANGED <<uuids, now, users>>
           ELSE LET check == SubscribeAmountCheck(loc.fund, user, loc.amount)
                IN  IF check # "ok"
                    THEN /\ Finish(p, loc, check)
                         /\ users' = [users EXCEPT ![loc.user_id].balance =
                                          user.balance - loc.amount]
                         /\ UNCHANGED <<uuids, now>>
                    ELSE \E clock \in UtcNow :
                         /\ now' = clock
                         /\ uuids' = uuids + 1
                         /\ UNCHANGED users
                         /\ Goto(p, [loc EXCEPT !.transaction_dict =
                                       TransactionDict(uuids + 1, clock, loc.user_id,
                                           loc.fund_id, loc.fund, "SUBSCRIPTION",
                                           loc.amount)],
                                 "sub_insert")
    /\ UNCHANGED <<funds, transactions, calls>>

\* lines 135-164
SubFindUser(p) ==
    /\ pc[p] = "sub_find_user"
    /\ LET user == FindOne(users, local[p].user_id)
           loc == [local[p] EXCEPT !.user = user]
       IN  IF user = None
           THEN Finish(p, loc, "UserNotFound") /\ UNCHANGED <<uuids, now>>
           ELSE LET check == SubscribeAmountCheck(loc.fund, user, loc.amount)
                IN  IF check # "ok"
                    THEN Finish(p, loc, check) /\ UNCHANGED <<uuids, now>>
                    ELSE \E clock \in UtcNow :
                         /\ now' = clock
                         /\ uuids' = uuids + 1
                         /\ Goto(p, [loc EXCEPT !.transaction_dict =
                                       TransactionDict(uuids + 1, clock, loc.user_id,
                                           loc.fund_id, loc.fund, "SUBSCRIPTION",
                                           loc.amount)],
                                 "sub_insert")
    /\ UNCHANGED <<funds, users, transactions, calls>>

\* lines 167-171: the session's transaction starts and insert_one runs in it.
\* The document stays in the session until the transaction commits.  An
\* exception aborts the transaction and reaches the handler's except clause.
SessionInsert(p, next) ==
    /\ \/ /\ ~DuplicateKey(p, local[p].transaction_dict)
          /\ Goto(p, local[p], next)
       \/ /\ DuplicateKey(p, local[p].transaction_dict)
          /\ Finish(p, [local[p] EXCEPT !.fault = "insert"], "ServerError")
       \/ Finish(p, [local[p] EXCEPT !.fault = "insert"], "ServerError")
    /\ UNCHANGED <<funds, users, transactions, now, uuids, calls>>

SubInsert(p) ==
    /\ pc[p] = "sub_insert"
    /\ SessionInsert(p, "sub_update")

\* lines 174-182: the user document the subscribe handler writes
SubscribeUpdate(doc, loc) ==
    [doc EXCEPT !.balance = loc.user.balance - loc.amount,
                !.subscribed_funds = AddToSet(doc.subscribed_funds, loc.fund_id)]

\* Mutation of SessionUpdateCommit: the two writes are not in one transaction,
\* so the inserted document stays when the update fails.
SessionUpdateCommit_NoRollback(p, newdoc) ==
    /\ \/ /\ ~local[p].conflict
          /\ transactions' = Append(transactions, local[p].transaction_dict)
          /\ users' = [users EXCEPT ![local[p].user_id] = newdoc]
          /\ pc' = [pc EXCEPT ![p] = "done"]
          /\ local' = MarkConflicts(p, [local[p] EXCEPT !.result = "Transaction"])
       \/ /\ Finish(p, [local[p] EXCEPT !.fault = "update"], "ServerError")
          /\ transactions' = Append(transactions, local[p].transaction_dict)
          /\ UNCHANGED users
    /\ UNCHANGED <<funds, now, uuids, calls>>

\* Mutation of SessionUpdateCommit: update_one is given no filter on _id, so
\* the write reaches every user document.
SessionUpdateCommit_NoFilter(p, newdoc) ==
    /\ \/ /\ ~local[p].conflict
          /\ transactions' = Append(transactions, local[p].transaction_dict)
          /\ users' = [u \in DOMAIN users |-> newdoc]
          /\ pc' = [pc EXCEPT ![p] = "done"]
          /\ local' = MarkConflicts(p, [local[p] EXCEPT !.result = "Transaction"])
       \/ /\ local[p].conflict
          /\ Finish(p, [local[p] EXCEPT !.fault = "update"], "ServerError")
          /\ UNCHANGED <<users, transactions>>
       \/ /\ Finish(p, [local[p] EXCEPT !.fault = "update"], "ServerError")
          /\ UNCHANGED <<users, transactions>>
    /\ UNCHANGED <<funds, now, uuids, calls>>

\* update_one in the session, then the commit on leaving start_transaction():
\* the inserted document and the updated user document become visible
\* together.  A failed update aborts the transaction.
SessionUpdateCommit(p, newdoc) ==
    /\ \/ /\ ~local[p].conflict
          /\ transactions' = Append(transactions, local[p].transaction_dict)
          /\ users' = [users EXCEPT ![local[p].user_id] = newdoc]
          /\ pc' = [pc EXCEPT ![p] = "done"]
          /\ local' = MarkConflicts(p, [local[p] EXCEPT !.result = "Transaction"])
       \/ /\ local[p].conflict
          /\ Finish(p, [local[p] EXCEPT !.fault = "update"], "ServerError")
          /\ UNCHANGED <<users, transactions>>
       \/ /\ Finish(p, [local[p] EXCEPT !.fault = "update"], "ServerError")
          /\ UNCHANGED <<users, transactions>>
    /\ UNCHANGED <<funds, now, uuids, calls>>

\* lines 173-189
SubUpdate(p) ==
    /\ pc[p] = "sub_update"
    /\ SessionUpdateCommit(p, SubscribeUpdate(users[local[p].user_id], local[p]))

(***************************************************************************)
(* FundService.cancel_fund_subscription                                    *)
(***************************************************************************)
\* lines 206-209
CanFindFund(p) ==
    /\ pc[p] = "can_find_fund"
    /\ LET fund == FindOne(funds, local[p].fund_id)
           loc == [local[p] EXCEPT !.fund = fund]
       IN  IF fund = None THEN Finish(p, loc, "FundNotFound")
           ELSE Goto(p, loc, "can_find_user")
    /\ UNCHANGED <<funds, users, transactions, now, uuids, calls>>

\* Mutation of CanFindUser: the membership check of lines 216-218 is left out.
CanFindUser_NoMembershipCheck(p) ==
    /\ pc[p] = "can_find_user"
    /\ LET user == FindOne(users, local[p].user_id)
           loc == [local[p] EXCEPT !.user = user]
       IN  IF user = None THEN Finish(p, loc, "UserNotFound")
           ELSE Goto(p, loc, "can_find_transactions")
    /\ UNCHANGED <<funds, users, transactions, now, uuids, calls>>

\* Mutation of CanFindUser: a fund absent from subscribed_funds is reported
\* as a position without investment.
CanFindUser_AbsentAsNoInvestment(p) ==
    /\ pc[p] = "can_find_user"
    /\ LET user == FindOne(users, local[p].user_id)
           loc == [local[p] EXCEPT !.user = user]
       IN  IF user = None THEN Finish(p, loc, "UserNotFound")
           ELSE IF ~Contains(user.subscribed_funds, loc.fund_id)
           THEN Finish(p, loc, "NoActiveInvestment")
           ELSE Goto(p, loc, "can_find_transactions")
    /\ UNCHANGED <<funds, users, transactions, now, uuids, calls>>

\* lines 211-218
CanFindUser(p) ==
    /\ pc[p] = "can_find_user"
    /\ LET user == FindOne(users, local[p].user_id)
           loc == [local[p] EXCEPT !.user = user]
       IN  IF user = None THEN Finish(p, loc, "UserNotFound")
           ELSE IF ~Contains(user.subscribed_funds, loc.fund_id)
           THEN Finish(p, loc, "NotSubscribed")
           ELSE Goto(p, loc, "can_find_transactions")
    /\ UNCHANGED <<funds, users, transactions, now, uuids, calls>>

\* lines 220-250
CanFindTransactions(p) ==
    /\ pc[p] = "can_find_transactions"
    /\ LET invested_amount ==
               InvestedAmount(transactions, local[p].user_id, local[p].fund_id)
           loc == [local[p] EXCEPT !.invested_amount = invested_amount]
       IN  IF invested_amount <= 0
           THEN Finish(p, loc, "NoActiveInvestment") /\ UNCHANGED <<uuids, now>>
           ELSE \E clock \in UtcNow :
                /\ now' = clock
                /\ uuids' = uuids + 1
                /\ Goto(p, [loc EXCEPT !.transaction_dict =
                              TransactionDict(uuids + 1, clock, loc.user_id,
                                  loc.fund_id, loc.fund, "CANCELLATION",
                                  invested_amount)],
                        "can_insert")
    /\ UNCHANGED <<funds, users, transactions, calls>>

\* lines 253-257
CanInsert(p) ==
    /\ pc[p] = "can_insert"
    /\ SessionInsert(p, "can_update")

\* Mutation of CancelUpdate: the $pull is left out.
CancelUpdate_NoPull(doc, loc) ==
    [doc EXCEPT !.balance = loc.user.balance + loc.invested_amount]

\* lines 260-268: the user document the cancel handler writes
CancelUpdate(doc, loc) ==
    [doc EXCEPT !.balance = loc.user.balance + loc.invested_amount,
                !.subscribed_funds = Pull(doc.subscribed_funds, loc.fund_id)]

\* lines 259-275
CanUpdate(p) ==
    /\ pc[p] = "can_update"
    /\ SessionUpdateCommit(p, CancelUpdate(users[local[p].user_id], local[p]))

(***************************************************************************)
(* The specifications.                                                     *)
(***************************************************************************)
Subscribe(p) ==
    \E u \in ReqUsers, f \in ReqFunds, a \in Amounts : Call(p, "subscribe", u, f, a)

Cancel(p) ==
    \E u \in ReqUsers, f \in ReqFunds : Call(p, "cancel", u, f, 0)

Step(p) ==
    \/ SubFindFund(p) \/ SubFindUser(p) \/ SubInsert(p) \/ SubUpdate(p)
    \/ CanFindFund(p) \/ CanFindUser(p) \/ CanFindTransactions(p)
    \/ CanInsert(p) \/ CanUpdate(p)

Next ==
    \/ \E p \in Procs : Subscribe(p)
    \/ \E p \in Procs : Cancel(p)
    \/ \E p \in Procs : Step(p)

Spec == Init /\ [][Next]_vars

\* No handler is between its call and its return.
Quiet == \A q \in Procs : pc[q] \in {"idle", "done"}

\* Requests served one after the other: a handler is called only when no
\* other is running.
SeqNext ==
    \/ \E p \in Procs : Quiet /\ Subscribe(p)
    \/ \E p \in Procs : Quiet /\ Cancel(p)
    \/ \E p \in Procs : Step(p)

SeqSpec == Init /\ [][SeqNext]_vars

(***************************************************************************)
(* The read side.                                                          *)
(***************************************************************************)
\* db.transactions.find({"user_id": user_id, "status": "COMPLETED"})
FindUserCompleted(txs, user_id) ==
    SelectSeq(txs, LAMBDA tx : tx.user_id = user_id /\ tx.status = "COMPLETED")

\* db.transactions.find({"user_id": user_id})
FindUser(txs, user_id) == SelectSeq(txs, LAMBDA tx : tx.user_id = user_id)

\* FundService.get_user_balance: subscribed_funds_value
SubscribedFundsValue(user_id) ==
    IF users[user_id].subscribed_funds # <<>>
    THEN Fold(FindUserCompleted(transactions, user_id))
    ELSE 0

Max(a, b) == IF a >= b THEN a ELSE b

\* cursor.sort("created_at", -1): the documents in an order of non-increasing
\* created_at; the order of documents with equal created_at is not fixed.
SortCreatedAtDesc(txs) ==
    LET n == Len(txs)
        orders == {f \in [1..n -> 1..n] :
                     /\ \A i, j \in 1..n : i # j => f[i] # f[j]
                     /\ \A i, j \in 1..n :
                           i < j => txs[f[i]].created_at >= txs[f[j]].created_at}
    IN  {[i \in 1..n |-> txs[f[i]]] : f \in orders}

\* Mutation of TotalInvested: the fold is reported as it is, without max(0, .).
TotalInvested_NoClamp(user_id) ==
    Fold(SelectSeq(FindUser(transactions, user_id),
                   LAMBDA tx : tx.status = "COMPLETED"))

\* FundService.get_user_transaction_history: total_invested
TotalInvested(user_id) ==
    Max(0, Fold(SelectSeq(FindUser(transactions, user_id),
                          LAMBDA tx : tx.status = "COMPLETED")))

(***************************************************************************)
(* Definitions the properties use.                                         *)
(***************************************************************************)
\* netInvested(user, fund), from the committed ledger
NetInvested(user_id, fund_id) == InvestedAmount(transactions, user_id, fund_id)

NetInvestedNext(user_id, fund_id) == InvestedAmount(transactions', user_id, fund_id)

\* The set of fund ids in a subscribed_funds array
Members(list) == {list[i] : i \in 1..Len(list)}

\* How often x occurs in a list
Count(list, x) == Cardinality({i \in 1..Len(list) : list[i] = x})

\* Handler p takes a step
Moves(p) == pc'[p] # pc[p]

\* Handler p commits its transaction in this step and returns it
Commits(p, op) ==
    /\ local[p].op = op
    /\ pc[p] \in {"sub_update", "can_update"}
    /\ pc'[p] = "done"
    /\ local'[p].result = "Transaction"


(***************************************************************************)
(* Properties.                                                             *)
(***************************************************************************)

\* C1: concurrent Subscribe calls of one user are serialized: once they have
\* finished, the balance is the starting balance minus the amounts of the
\* calls that returned a transaction.  (Stated for a user whose ledger holds
\* subscriptions only, where the sum of its entries is that of those calls.)
C1_SubscribesSerialized ==
    \A u \in UserIds :
        (/\ Quiet
         /\ \A i \in 1..Len(transactions) :
               transactions[i].user_id = u =>
                   transactions[i].transaction_type = "SUBSCRIPTION")
        => users[u].balance =
               InitialBalance - Fold(FindUserCompleted(transactions, u))

\* C2: the stored balance is never negative.
C2_NoNegativeBalance == \A u \in UserIds : users[u].balance >= 0

\* C2 witness: two subscriptions have used the whole starting balance.
C2_Witness ==
    \E u \in UserIds :
        /\ users[u].balance = 0
        /\ Len(FindUserCompleted(transactions, u)) = 2

\* C3: when the update of the user document fails after the insert into the
\* ledger succeeded, the call reports a failure, the step leaves the ledger
\* and the user documents as they were, and the ledger does not hold the
\* document the call inserted.
C3_AtomicUnderFailure ==
    [][\A p \in Procs :
          (/\ pc[p] \in {"sub_update", "can_update"}
           /\ pc'[p] = "done"
           /\ local'[p].fault = "update")
          => /\ local'[p].result = "ServerError"
             /\ transactions' = transactions
             /\ users' = users
             /\ \A i \in 1..Len(transactions') :
                   transactions'[i].id # local[p].transaction_dict.id]_vars

\* C3 witness: a cancel whose update failed after its insert.
C3_Witness ==
    \E p \in Procs :
        /\ pc[p] = "done"
        /\ local[p].op = "cancel"
        /\ local[p].fault = "update"
        /\ local[p].result = "ServerError"

\* C4: concurrent Cancel calls refund a position once: among the ledger
\* entries of one user and fund, a CANCELLATION never follows a CANCELLATION.
C4_CancelRefundsOnce ==
    \A u \in UserIds, f \in DOMAIN funds :
        LET txs == FindUserFundCompleted(transactions, u, f)
        IN  \A i \in 1..(Len(txs) - 1) :
                ~(/\ txs[i].transaction_type = "CANCELLATION"
                  /\ txs[i + 1].transaction_type = "CANCELLATION")

\* C5: with requests served one after the other, subscribed_funds holds
\* exactly the funds whose net invested amount is positive (in every state,
\* so after every completed call).
C5_CacheMatchesLedger ==
    \A u \in UserIds :
        Members(users[u].subscribed_funds) =
            {f \in DOMAIN funds : NetInvested(u, f) > 0}

\* C5 witness: a position was opened and liquidated, another is still held.
C5_Witness ==
    \E u \in UserIds, f, g \in DOMAIN funds :
        /\ Quiet
        /\ \E i \in 1..Len(transactions) :
              /\ transactions[i].fund_id = f
              /\ transactions[i].transaction_type = "CANCELLATION"
        /\ NetInvested(u, f) = 0
        /\ NetInvested(u, g) > 0

\* C6: every successful Cancel returns and appends a COMPLETED CANCELLATION
\* whose amount is the net invested amount before it, credits that amount to
\* the balance and leaves the net invested amount at 0.
C6_FullLiquidation ==
    [][\A p \in Procs :
          Commits(p, "cancel") =>
              LET u == local[p].user_id
                  f == local[p].fund_id
                  tx == local'[p].transaction_dict
              IN  /\ transactions' = Append(transactions, tx)
                  /\ tx.transaction_type = "CANCELLATION"
                  /\ tx.status = "COMPLETED"
                  /\ tx.amount = NetInvested(u, f)
                  /\ users'[u].balance = users[u].balance + tx.amount
                  /\ NetInvestedNext(u, f) = 0]_vars

\* C7: after every operation, the invested value get_user_balance reports
\* equals the total_invested get_user_transaction_history reports.
C7_ProjectionMatchesHistory ==
    Quiet => \A u \in UserIds : SubscribedFundsValue(u) = TotalInvested(u)

\* The first precondition of Subscribe that the request violates, in the
\* order fund exists, fund active, user exists, minimum, balance.
SubscribeFirstFailure(user_id, fund_id, amount) ==
    IF fund_id \notin DOMAIN funds THEN "FundNotFound"
    ELSE IF ~funds[fund_id].is_active THEN "FundInactive"
    ELSE IF user_id \notin DOMAIN users THEN "UserNotFound"
    ELSE IF amount < funds[fund_id].minimum_amount THEN "BelowMinimum"
    ELSE IF users[user_id].balance < amount THEN "InsufficientFunds"
    ELSE "none"

\* C8: a Subscribe that fails a precondition reports the first one violated,
\* and a violated precondition ends the call at the step that checks it.
C8_SubscribeFirstFailureWins ==
    [][\A p \in Procs :
          (/\ local[p].op = "subscribe"
           /\ pc[p] \in {"sub_find_fund", "sub_find_user"}
           /\ Moves(p))
          => LET first == SubscribeFirstFailure(local[p].user_id,
                              local[p].fund_id, local[p].amount)
             IN  /\ pc'[p] = "done" => local'[p].result = first
                 /\ first \in {"FundNotFound", "FundInactive"} => pc'[p] = "done"
                 /\ (pc[p] = "sub_find_user" /\ first # "none") => pc'[p] = "done"]_vars

\* C8 witness: an amount below the minimum and above the balance was
\* rejected with BelowMinimum.
C8_Witness ==
    \E p \in Procs :
        /\ pc[p] = "done"
        /\ local[p].op = "subscribe"
        /\ local[p].result = "BelowMinimum"
        /\ local[p].user.balance < local[p].amount

\* The first precondition of Cancel that handler p's request violates, in the
\* order fund exists, user exists, fund in the subscribed_funds the handler
\* read, net invested amount of the ledger positive.
CancelFirstFailure(p) ==
    LET u == local[p].user_id
        f == local[p].fund_id
        cached == IF pc[p] = "can_find_transactions"
                  THEN local[p].user.subscribed_funds
                  ELSE users[u].subscribed_funds
    IN  IF f \notin DOMAIN funds THEN "FundNotFound"
        ELSE IF u \notin DOMAIN users THEN "UserNotFound"
        ELSE IF f \notin Members(cached) THEN "NotSubscribed"
        ELSE IF NetInvested(u, f) <= 0 THEN "NoActiveInvestment"
        ELSE "none"

\* C9: a Cancel that fails a precondition reports the first one violated: a
\* fund absent from subscribed_funds gives NotSubscribed whatever the ledger
\* holds, and a fund in the set with no positive net invested amount in the
\* ledger gives NoActiveInvestment.
C9_CancelFirstFailureWins ==
    [][\A p \in Procs :
          (/\ local[p].op = "cancel"
           /\ pc[p] \in {"can_find_fund", "can_find_user", "can_find_transactions"}
           /\ Moves(p))
          => LET first == CancelFirstFailure(p)
             IN  /\ pc'[p] = "done" => local'[p].result = first
                 /\ first = "FundNotFound" => pc'[p] = "done"
                 /\ (pc[p] = "can_find_user"
                        /\ first \in {"UserNotFound", "NotSubscribed"})
                    => pc'[p] = "done"
                 /\ (pc[p] = "can_find_transactions" /\ first # "none")
                    => pc'[p] = "done"]_vars

\* C9 witness: the fund was in the subscribed_funds the handler read, the
\* ledger held no positive net amount, and the call gave NoActiveInvestment.
C9_Witness ==
    \E p \in Procs :
        /\ pc[p] = "done"
        /\ local[p].op = "cancel"
        /\ local[p].result = "NoActiveInvestment"
        /\ Contains(local[p].user.subscribed_funds, local[p].fund_id)
        /\ local[p].invested_amount <= 0

\* C10: every successful Subscribe appends one COMPLETED SUBSCRIPTION of the
\* requested amount, decreases the balance by that amount and leaves the fund
\* in subscribed_funds once.
C10_SubscribeEffect ==
    [][\A p \in Procs :
          Commits(p, "subscribe") =>
              LET u == local[p].user_id
                  f == local[p].fund_id
                  tx == local'[p].transaction_dict
              IN  /\ transactions' = Append(transactions, tx)
                  /\ tx.transaction_type = "SUBSCRIPTION"
                  /\ tx.status = "COMPLETED"
                  /\ tx.amount = local[p].amount
                  /\ users'[u].balance = users[u].balance - local[p].amount
                  /\ Count(users'[u].subscribed_funds, f) = 1]_vars

\* The five precondition failures of Subscribe
SubscribeFailures ==
    {"FundNotFound", "FundInactive", "UserNotFound", "BelowMinimum",
     "InsufficientFunds"}

\* C11: a Subscribe call that fails one of its five preconditions creates no
\* ledger entry and leaves the user documents (balance and subscribed_funds)
\* unchanged: the call fails at one of its two reading steps, before it has
\* built a ledger entry, and neither reading step writes.
C11_FailedSubscribeWritesNothing ==
    [][\A p \in Procs :
          /\ (/\ local[p].op = "subscribe"
              /\ pc[p] \in {"sub_find_fund", "sub_find_user"}
              /\ Moves(p))
             => /\ transactions' = transactions
                /\ users' = users
          /\ (/\ local[p].op = "subscribe"
              /\ pc[p] \notin {"idle", "done"}
              /\ pc'[p] = "done"
              /\ local'[p].result \in SubscribeFailures)
             => /\ pc[p] \in {"sub_find_fund", "sub_find_user"}
                /\ local'[p].transaction_dict = NoTransaction
                /\ uuids' = uuids]_vars

\* C11 witness: after a subscription was stored, a Subscribe was rejected for
\* insufficient funds and the user document is the one the call read.
C11_Witness ==
    \E p \in Procs :
        /\ pc[p] = "done"
        /\ local[p].op = "subscribe"
        /\ local[p].result = "InsufficientFunds"
        /\ Len(transactions) = 1
        /\ users[local[p].user_id] = local[p].user

\* No ledger entry records a subscription of the user to the fund.
NeverSubscribed(user_id, fund_id) ==
    \A i \in 1..Len(transactions) :
        ~(/\ transactions[i].user_id = user_id
          /\ transactions[i].fund_id = fund_id
          /\ transactions[i].transaction_type = "SUBSCRIPTION")

\* C12: a Cancel by an existing user for an existing fund the user never
\* subscribed to fails with NotSubscribed at the step that reads the user,
\* creates no ledger entry and leaves the user documents unchanged.
C12_CancelNeverSubscribed ==
    [][\A p \in Procs :
          (/\ local[p].op = "cancel"
           /\ pc[p] \in {"can_find_fund", "can_find_user"}
           /\ Moves(p)
           /\ local[p].user_id \in DOMAIN users
           /\ local[p].fund_id \in DOMAIN funds
           /\ NeverSubscribed(local[p].user_id, local[p].fund_id))
          => /\ transactions' = transactions
             /\ users' = users
             /\ pc[p] = "can_find_user"
                => /\ pc'[p] = "done"
                   /\ local'[p].result = "NotSubscribed"]_vars

\* C12 witness: the user holds a position in one fund and a Cancel for another
\* fund, never subscribed to, was rejected with NotSubscribed.
C12_Witness ==
    \E p \in Procs :
        /\ pc[p] = "done"
        /\ local[p].op = "cancel"
        /\ local[p].result = "NotSubscribed"
        /\ NeverSubscribed(local[p].user_id, local[p].fund_id)
        /\ users[local[p].user_id].subscribed_funds # <<>>

\* Handler q returned a SUBSCRIPTION of a user without a position in the fund,
\* nothing was stored since, and handler p serves a Cancel of that user for
\* that fund.  q's locals still hold the user document as it was before the
\* Subscribe.
RoundTrip(q, p) ==
    /\ q # p
    /\ pc[q] = "done"
    /\ local[q].op = "subscribe"
    /\ local[q].result = "Transaction"
    /\ local[p].op = "cancel"
    /\ pc[p] \notin {"idle", "done"}
    /\ local[p].user_id = local[q].user_id
    /\ local[p].fund_id = local[q].fund_id
    /\ Len(transactions) > 0
    /\ transactions[Len(transactions)] = local[q].transaction_dict
    /\ ~Contains(local[q].user.subscribed_funds, local[q].fund_id)
    /\ InvestedAmount(SubSeq(transactions, 1, Len(transactions) - 1),
                      local[q].user_id, local[q].fund_id) = 0

\* C13: with requests served one after the other, a Cancel that follows a
\* Subscribe of amount a by a user who had no position in the fund passes its
\* preconditions, is not rejected by the ledger's unique index, and on commit
\* returns a COMPLETED CANCELLATION of amount a and restores the user
\* document (balance and subscribed_funds) to its value before the Subscribe.
\* The only failure left to it is a storage fault.
C13_RoundTrip ==
    [][\A p, q \in Procs :
          (RoundTrip(q, p) /\ Moves(p))
          => /\ pc[p] = "can_insert"
                => ~DuplicateKey(p, local[p].transaction_dict)
             /\ pc'[p] = "done"
                => local'[p].result \in {"Transaction", "ServerError"}
             /\ Commits(p, "cancel")
                => LET tx == local'[p].transaction_dict
                   IN  /\ transactions' = Append(transactions, tx)
                       /\ tx.transaction_type = "CANCELLATION"
                       /\ tx.status = "COMPLETED"
                       /\ tx.amount = local[q].amount
                       /\ users'[local[p].user_id] = local[q].user]_vars

\* Handler q returned a CANCELLATION, the ledger holds no later entry of that
\* user and fund, and handler p serves a Cancel of that user for that fund.
Replay(q, p) ==
    /\ q # p
    /\ pc[q] = "done"
    /\ local[q].op = "cancel"
    /\ local[q].result = "Transaction"
    /\ local[p].op = "cancel"
    /\ pc[p] \notin {"idle", "done"}
    /\ local[p].user_id = local[q].user_id
    /\ local[p].fund_id = local[q].fund_id
    /\ LET txs == FindUserFundCompleted(transactions, local[q].user_id,
                                        local[q].fund_id)
       IN  /\ Len(txs) > 0
           /\ txs[Len(txs)] = local[q].transaction_dict

\* C14: with requests served one after the other, a Cancel that follows a
\* successful Cancel of the same user and fund, with no Subscribe to the fund
\* stored in between, fails with NotSubscribed at the step that reads the
\* user, appends no ledger entry and leaves the user documents unchanged.
C14_CancelReplay ==
    [][\A p, q \in Procs :
          (Replay(q, p) /\ Moves(p))
          => /\ transactions' = transactions
             /\ users' = users
             /\ pc[p] = "can_find_user"
                => /\ pc'[p] = "done"
                   /\ local'[p].result = "NotSubscribed"]_vars

\* C14 witness: a Cancel was replayed and rejected; the ledger holds the one
\* CANCELLATION and the balance is the starting balance again.
C14_Witness ==
    \E p, q \in Procs :
        /\ q # p
        /\ pc[q] = "done" /\ local[q].op = "cancel"
        /\ local[q].result = "Transaction"
        /\ pc[p] = "done" /\ local[p].op = "cancel"
        /\ local[p].result = "NotSubscribed"
        /\ local[p].fund_id = local[q].fund_id
        /\ local[p].user_id = local[q].user_id
        /\ Len(transactions) = 2
        /\ transactions[2] = local[q].transaction_dict
        /\ users[local[p].user_id].balance = InitialBalance

(***************************************************************************)
(* The fund routers: app/routes/fund_routes.py and app/routes/funds.py.    *)
(* Both serve subscribe, cancel, balance and history requests that carry a *)
(* bearer token and pass a user id to FundService.                         *)
(***************************************************************************)
\* Two registered users whose ids share their first six characters.
UserA == <<"3f2a91", "01">>
UserB == <<"3f2a91", "02">>
RouteUsers == {UserA, UserB}

\* "user123", the id funds.py's get_current_user_id returns
User123 == <<"user12", "3">>

\* The user ids bearer tokens carry: those of the registered users and one of
\* a user that is not in the database.
Tokens == RouteUsers \cup {NoSuchUser}

RouteOps == {"subscribe", "cancel", "balance", "history"}
RouteFunds == {"fund-1"}
RouteAmounts == {200000}

RouteInit ==
    /\ funds = FundsInit
    /\ users = [u \in RouteUsers |->
                   [balance |-> InitialBalance, subscribed_funds |-> <<>>]]
    /\ transactions = <<>>
    /\ now = 0
    /\ uuids = 0
    /\ calls = 0
    /\ pc = [p \in Procs |-> "idle"]
    /\ local = [p \in Procs |-> IdleLocal]

\* The first step of the service method a route calls
FirstLabel(op) ==
    CASE op = "subscribe" -> "sub_find_fund"
      [] op = "cancel" -> "can_find_fund"
      [] op = "balance" -> "get_user_balance"
      [] op = "history" -> "get_user_transaction_history"

\* funds.py: get_current_user_id(token)
GetCurrentUserId(token) == User123

\* A users document as find_one returns it: the stored fields under their
\* names and the key under "_id".
UserDocument(user_id) ==
    [f \in DOMAIN users[user_id] \cup {"_id"} |->
        IF f = "_id" THEN user_id ELSE users[user_id][f]]

\* user_data["id"] = user_data.pop("_id")
PopId(user_data) ==
    [f \in (DOMAIN user_data \ {"_id"}) \cup {"id"} |->
        IF f = "id" THEN user_data["_id"] ELSE user_data[f]]

ValidationError == [error |-> "ValidationError"]

\* UserResponse(**data) (models/user.py:85-97): id is a required field and
\* has no alias; keys that are not fields of the model are dropped.
UserResponse(data) ==
    IF "id" \notin DOMAIN data THEN ValidationError
    ELSE [f \in DOMAIN data \ {"_id", "hashed_password"} |-> data[f]]

\* UserService.get_user_by_id: the document is passed to UserResponse as it
\* was read, and any exception makes the method return None.
GetUserById(user_id) ==
    IF user_id \notin DOMAIN users THEN None
    ELSE LET user == UserResponse(UserDocument(user_id))
         IN  IF user = ValidationError THEN None ELSE user

\* fund_routes.py: each route depends on get_current_user
\* (auth/security.py:130-186), which reads the user of the token's user_id
\* with UserService.get_user_by_id and fails the request when that returns
\* None; the route then calls the service with current_user.id.
FundRoutesRequest(p, op, token, fund_id, amount) ==
    /\ pc[p] \in {"idle", "done"}
    /\ calls < MaxCalls
    /\ calls' = calls + 1
    /\ LET current_user == GetUserById(token)
           loc == [IdleLocal EXCEPT !.op = op, !.token = token]
       IN  IF current_user = None
           THEN Finish(p, [loc EXCEPT !.fault = "token"], "ServerError")
           ELSE Goto(p, [loc EXCEPT !.user_id = token, !.fund_id = fund_id,
                                    !.amount = amount],
                     FirstLabel(op))
    /\ UNCHANGED <<funds, users, transactions, now, uuids>>

\* funds.py: each route depends on get_current_user_id and calls the service
\* with the id it returns.
FundsRequest(p, op, token, fund_id, amount) ==
    /\ pc[p] \in {"idle", "done"}
    /\ calls < MaxCalls
    /\ calls' = calls + 1
    /\ Goto(p, [IdleLocal EXCEPT !.op = op, !.token = token,
                                 !.user_id = GetCurrentUserId(token),
                                 !.fund_id = fund_id, !.amount = amount],
            FirstLabel(op))
    /\ UNCHANGED <<funds, users, transactions, now, uuids>>

\* FundService.get_user_balance (lines 78-119); the value it reports is kept
\* in invested_amount.
GetUserBalance(p) ==
    /\ pc[p] = "get_user_balance"
    /\ LET user == FindOne(users, local[p].user_id)
           loc == [local[p] EXCEPT !.user = user]
       IN  IF user = None THEN Finish(p, loc, "UserNotFound")
           ELSE Finish(p, [loc EXCEPT !.invested_amount =
                                  SubscribedFundsValue(loc.user_id)],
                       "UserBalance")
    /\ UNCHANGED <<funds, users, transactions, now, uuids, calls>>

\* FundService.get_user_transaction_history (lines 286-325): an unknown user
\* gets an empty history.
GetUserTransactionHistory(p) ==
    /\ pc[p] = "get_user_transaction_history"
    /\ \E cursor \in SortCreatedAtDesc(FindUser(transactions, local[p].user_id)) :
          Finish(p, [local[p] EXCEPT
                        !.user = FindOne(users, local[p].user_id),
                        !.history = cursor,
                        !.invested_amount = TotalInvested(local[p].user_id)],
                 "TransactionHistory")
    /\ UNCHANGED <<funds, users, transactions, now, uuids, calls>>

\* Requests to the two routers, and calls made on the service itself for the
\* registered users.
RouteNext ==
    \/ \E p \in Procs, op \in RouteOps, token \in Tokens, f \in RouteFunds :
          \E a \in (IF op = "subscribe" THEN RouteAmounts ELSE {0}) :
             FundRoutesRequest(p, op, token, f, a)
    \/ \E p \in Procs, op \in RouteOps, token \in Tokens, f \in RouteFunds :
          \E a \in (IF op = "subscribe" THEN RouteAmounts ELSE {0}) :
             FundsRequest(p, op, token, f, a)
    \/ \E p \in Procs, op \in {"subscribe", "cancel"}, u \in RouteUsers,
          f \in RouteFunds :
          \E a \in (IF op = "subscribe" THEN RouteAmounts ELSE {0}) :
             Call(p, op, u, f, a)
    \/ \E p \in Procs : Step(p)
    \/ \E p \in Procs : GetUserBalance(p)
    \/ \E p \in Procs : GetUserTransactionHistory(p)

RouteSpec == RouteInit /\ [][RouteNext]_vars

\* C15: any two distinct ledger entries have different transaction_id values
\* (also when one user, or two users whose ids share their first six
\* characters, call within one clock second).
C15_TransactionIdsUnique ==
    \A i, j \in 1..Len(transactions) :
        i # j => transactions[i].transaction_id # transactions[j].transaction_id

\* C15 witness: a call of one user built the transaction_id of a stored entry
\* of another user, and its insert was rejected.
C15_Witness ==
    \E p \in Procs, i \in 1..Len(transactions) :
        /\ pc[p] = "done"
        /\ local[p].fault = "insert"
        /\ local[p].transaction_dict # NoTransaction
        /\ local[p].transaction_dict.transaction_id = transactions[i].transaction_id
        /\ local[p].user_id # transactions[i].user_id

\* C20: every request a fund router passes to the service acts on the account
\* of the user its bearer token authenticates.
C20_ActsOnTokenUser ==
    \A p \in Procs :
        (/\ pc[p] # "idle"
         /\ local[p].token # NoToken
         /\ local[p].fault # "token")
        => local[p].user_id = local[p].token

(***************************************************************************)
(* The catalog: FundService.create_fund and FundCRUD.create_fund over the  *)
(* funds collection and its unique index on name (connection.py:77).       *)
(***************************************************************************)
\* FundCreate.name and FundCreate.minimum_amount of the requests: the name of
\* a fund in the catalog and two names of initialize_default_funds that are
\* not in it.
CatalogNames ==
    {"FPV_BTG_PACTUAL_RECAUDADORA", "FPV_BTG_PACTUAL_ECOPETROL",
     "FPV_BTG_PACTUAL_DINAMICA"}
CatalogMinimums == {100000, 125000}

\* The _id values of new fund documents: str(uuid.uuid4()) in FundService,
\* the ObjectId MongoDB assigns in FundCRUD.  The n-th id drawn is fresh.
FundUuids == <<"fund-4", "fund-5", "fund-6", "fund-7", "fund-8", "fund-9">>
FundUuid(n) == FundUuids[n]

\* db.funds.find_one({"name": name}) finds a document; also the condition
\* under which the unique index on name rejects an insert.
NameExists(name) == \E f \in DOMAIN funds : funds[f].name = name

\* insert_one of a document with a new _id
InsertOne(collection, id, doc) ==
    [f \in DOMAIN collection \cup {id} |->
        IF f = id THEN doc ELSE collection[f]]

\* A call of FundService.create_fund(fund_data)
CreateFundCall(p, name, minimum_amount) ==
    /\ pc[p] \in {"idle", "done"}
    /\ calls < MaxCalls
    /\ calls' = calls + 1
    /\ Goto(p, [IdleLocal EXCEPT !.op = "create_fund",
                   !.fund = [name |-> name, minimum_amount |-> minimum_amount]],
            "create_find_one")
    /\ UNCHANGED <<funds, users, transactions, now, uuids>>

\* fund_service.py:52-62: the lookup by name, then fund_dict
CreateFindOne(p) ==
    /\ pc[p] = "create_find_one"
    /\ IF NameExists(local[p].fund.name)
       THEN Finish(p, local[p], "DuplicateName") /\ UNCHANGED uuids
       ELSE /\ uuids' = uuids + 1
            /\ Goto(p, [local[p] EXCEPT
                           !.fund_id = FundUuid(uuids + 1),
                           !.fund = [f \in DOMAIN local[p].fund \cup {"is_active"} |->
                                       IF f = "is_active" THEN TRUE
                                       ELSE local[p].fund[f]]],
                    "create_insert_one")
    /\ UNCHANGED <<funds, users, transactions, now, calls>>

\* Mutation of CreateInsertOne: the collection has no unique index on name.
CreateInsertOne_NoUniqueIndex(p) ==
    /\ pc[p] = "create_insert_one"
    /\ \/ /\ funds' = InsertOne(funds, local[p].fund_id, local[p].fund)
          /\ Finish(p, local[p], "Fund")
       \/ /\ Finish(p, [local[p] EXCEPT !.fault = "insert"], "ServerError")
          /\ UNCHANGED funds
    /\ UNCHANGED <<users, transactions, now, uuids, calls>>

\* fund_service.py:64-75: insert_one and the read of the created document.
\* A DuplicateKeyError of the unique index, like any other exception of the
\* insert, is not a ValueError and becomes HTTP 500.
CreateInsertOne(p) ==
    /\ pc[p] = "create_insert_one"
    /\ \/ /\ ~NameExists(local[p].fund.name)
          /\ funds' = InsertOne(funds, local[p].fund_id, local[p].fund)
          /\ Finish(p, local[p], "Fund")
       \/ /\ NameExists(local[p].fund.name)
          /\ Finish(p, [local[p] EXCEPT !.fault = "insert"], "ServerError")
          /\ UNCHANGED funds
       \/ /\ Finish(p, [local[p] EXCEPT !.fault = "insert"], "ServerError")
          /\ UNCHANGED funds
    /\ UNCHANGED <<users, transactions, now, uuids, calls>>

\* crud.py:88-99 FundCRUD.create_fund: insert_one of fund.dict() (no
\* is_active field) under the unique index; DuplicateKeyError becomes
\* ValueError("Fund name already exists").
CrudCreateFund(p, name, minimum_amount) ==
    /\ pc[p] \in {"idle", "done"}
    /\ calls < MaxCalls
    /\ calls' = calls + 1
    /\ LET fund_dict == [name |-> name, minimum_amount |-> minimum_amount]
           loc == [IdleLocal EXCEPT !.op = "crud_create_fund", !.fund = fund_dict]
       IN  IF NameExists(name)
           THEN Finish(p, loc, "DuplicateName") /\ UNCHANGED <<funds, uuids>>
           ELSE /\ uuids' = uuids + 1
                /\ funds' = InsertOne(funds, FundUuid(uuids + 1), fund_dict)
                /\ Finish(p, [loc EXCEPT !.fund_id = FundUuid(uuids + 1)], "Fund")
    /\ UNCHANGED <<users, transactions, now>>

CatalogNext ==
    \/ \E p \in Procs, name \in CatalogNames, m \in CatalogMinimums :
          CreateFundCall(p, name, m)
    \/ \E p \in Procs, name \in CatalogNames, m \in CatalogMinimums :
          CrudCreateFund(p, name, m)
    \/ \E p \in Procs : CreateFindOne(p)
    \/ \E p \in Procs : CreateInsertOne(p)

CatalogSpec == Init /\ [][CatalogNext]_vars

\* No two documents of a funds collection share a name.
NamesUnique(collection) ==
    \A f, g \in DOMAIN collection :
        f # g => collection[f].name # collection[g].name

\* Handler p is at the step of a create_fund that looks the name up or, in
\* FundCRUD, inserts: FundService's find_one, or FundCRUD's whole call.
CreateLooksUp(p) ==
    \/ pc[p] = "create_find_one" /\ Moves(p)
    \/ /\ pc[p] \in {"idle", "done"}
       /\ pc'[p] = "done"
       /\ local'[p] # local[p]
       /\ local'[p].op = "crud_create_fund"

\* C17: no two funds of the catalog share a name, in every state, also with
\* two create_fund calls of one name in flight; a create_fund whose name is
\* that of a fund in the catalog when the call looks it up fails with
\* DuplicateName; and a create_fund that fails leaves the catalog unchanged.
C17_CatalogNamesUnique ==
    /\ [](NamesUnique(funds))
    /\ [][\A p \in Procs :
             /\ (CreateLooksUp(p) /\ NameExists(local'[p].fund.name))
                => /\ pc'[p] = "done"
                   /\ local'[p].result = "DuplicateName"
                   /\ funds' = funds
             /\ (/\ Moves(p) \/ CreateLooksUp(p)
                 /\ local'[p].op \in {"create_fund", "crud_create_fund"}
                 /\ pc'[p] = "done"
                 /\ local'[p].result # "Fund")
                => funds' = funds]_vars

\* C17 witness: of two overlapping create_fund calls with one name, one
\* stored the fund and the insert of the other was rejected; the catalog
\* holds the three initial funds and the new one.
C17_Witness ==
    \E p, q \in Procs :
        /\ p # q
        /\ pc[q] = "done" /\ local[q].op = "create_fund"
        /\ local[q].result = "Fund"
        /\ pc[p] = "done" /\ local[p].op = "create_fund"
        /\ local[p].fault = "insert"
        /\ local[p].fund.name = local[q].fund.name
        /\ Cardinality(DOMAIN funds) = 4

(***************************************************************************)
(* The ledger under TransactionCRUD.update_transaction_status              *)
(* (app/database/crud.py), beside the two FundService handlers served one  *)
(* after the other.                                                        *)
(***************************************************************************)
\* TransactionStatus (transaction.py:12-15); the status parameter is a str.
TransactionStatuses == {"COMPLETED", "FAILED", "PENDING"}

CrudFunds == {"fund-1"}

\* crud.py:170-190: update_one({"transaction_id": transaction_id},
\* {"$set": {"status": status}}), whatever the entry's current status (no
\* error_message is passed, and completed_at is set for "completed" only).
UpdateTransactionStatus(transaction_id, status) ==
    /\ transactions' =
           [i \in 1..Len(transactions) |->
               IF transactions[i].transaction_id = transaction_id
               THEN [transactions[i] EXCEPT !.status = status]
               ELSE transactions[i]]
    /\ UNCHANGED <<funds, users, now, uuids, calls, pc, local>>

CrudNext ==
    \/ \E p \in Procs, u \in UserIds, f \in CrudFunds, a \in Amounts :
          Quiet /\ Call(p, "subscribe", u, f, a)
    \/ \E p \in Procs, u \in UserIds, f \in CrudFunds :
          Quiet /\ Call(p, "cancel", u, f, 0)
    \/ \E p \in Procs : Step(p)
    \/ \E i \in 1..Len(transactions), status \in TransactionStatuses :
          Quiet /\ UpdateTransactionStatus(transactions[i].transaction_id, status)

CrudSpec == Init /\ [][CrudNext]_vars

\* C16: the ledger is append-only: no step changes or removes an entry whose
\* status is COMPLETED, and the only changes of an entry's status are PENDING
\* to COMPLETED and PENDING to FAILED.
C16_LedgerAppendOnly ==
    [][\A i \in 1..Len(transactions) :
          /\ i <= Len(transactions')
          /\ transactions[i].status = "COMPLETED"
             => transactions'[i] = transactions[i]
          /\ transactions'[i].status # transactions[i].status
             => /\ transactions[i].status = "PENDING"
                /\ transactions'[i].status \in {"COMPLETED", "FAILED"}]_vars

\* The cached subscribed_funds disagrees with the ledger on the fund.
Drift(user_id, fund_id) ==
    \/ /\ Contains(users[user_id].subscribed_funds, fund_id)
       /\ NetInvested(user_id, fund_id) = 0
    \/ /\ ~Contains(users[user_id].subscribed_funds, fund_id)
       /\ NetInvested(user_id, fund_id) > 0

\* C18: a Subscribe or Cancel on a fund, served while the user's cached
\* subscribed_funds disagrees with the ledger on that fund, leaves the fund in
\* subscribed_funds exactly when the net invested amount is positive.  (Asked
\* of every Cancel and of every Subscribe that passes its preconditions; calls
\* that end in a storage fault aside.)
C18_SelfHealing ==
    [][\A p \in Procs :
          (/\ local[p].op \in {"subscribe", "cancel"}
           /\ pc[p] \notin {"idle", "done"}
           /\ pc'[p] = "done"
           /\ local'[p].result \notin SubscribeFailures \cup {"ServerError"}
           /\ local[p].user_id \in DOMAIN users
           /\ local[p].fund_id \in DOMAIN funds
           /\ Drift(local[p].user_id, local[p].fund_id))
          => (Contains(users'[local[p].user_id].subscribed_funds, local[p].fund_id)
                 <=> NetInvestedNext(local[p].user_id, local[p].fund_id) > 0)]_vars

(***************************************************************************)
(* The in-memory engine of app/main.py: FUNDS_DB, USERS_DB and             *)
(* TRANSACTIONS_DB are module globals, kept in funds, users and            *)
(* transactions.  Its handlers have no await: each request runs as one     *)
(* step.  The response of the last request is kept in local[1].            *)
(***************************************************************************)
\* FUNDS_DB (lines 52-74)
MainFundsDb ==
    [f \in {"fpv-btg-001", "fic-btg-002", "fpv-btg-003"} |->
        CASE f = "fpv-btg-001" -> [name |-> "FPV_BTG_PACTUAL_RECAUDADORA",
                                   minimum_amount |-> 75000, is_active |-> TRUE]
          [] f = "fic-btg-002" -> [name |-> "FIC_BTG_PACTUAL_DINAMICA",
                                   minimum_amount |-> 100000, is_active |-> TRUE]
          [] f = "fpv-btg-003" -> [name |-> "FPV_BTG_PACTUAL_ECOPETROL",
                                   minimum_amount |-> 50000, is_active |-> TRUE]]

\* USERS_DB (lines 76-83)
MainUsersDb ==
    [u \in {User123} |-> [balance |-> 500000, subscribed_funds |-> <<>>]]

\* Query parameters of the requests: fund_id: str, amount: int, user_id: str
MainReqFunds == DOMAIN MainFundsDb \cup {NoSuchFund}
MainReqUsers == {User123, NoSuchUser}
MainAmounts == {60000, 200000}

MainInit ==
    /\ funds = MainFundsDb
    /\ users = MainUsersDb
    /\ transactions = <<>>
    /\ now = 0
    /\ uuids = 0
    /\ calls = 0
    /\ pc = [p \in Procs |-> "idle"]
    /\ local = [p \in Procs |-> IdleLocal]

\* list.remove(x): removes the first element equal to x.
RECURSIVE Remove(_, _)
Remove(list, x) ==
    IF list = <<>> THEN <<>>
    ELSE IF Head(list) = x THEN Tail(list)
    ELSE <<Head(list)>> \o Remove(Tail(list), x)

\* The transaction dict of both handlers (lines 177-187, 238-248): id and
\* transaction_id are two uuid4 values, created_at is datetime.now().
MainTransaction(uuid, clock, user_id, fund_id, fund, type, amount) ==
    [id |-> uuid + 1,
     transaction_id |-> <<uuid + 2, "uuid4">>,
     user_id |-> user_id,
     fund_id |-> fund_id,
     fund_name |-> fund.name,
     transaction_type |-> type,
     amount |-> amount,
     status |-> "COMPLETED",
     created_at |-> clock]

\* A handler raises HTTPException: nothing was written.
MainRaise(loc, result) ==
    /\ Finish(1, loc, result)
    /\ UNCHANGED <<funds, users, transactions, now, uuids>>

\* lines 144-194
MainSubscribeToFund(fund_id, amount, user_id) ==
    /\ calls < MaxCalls
    /\ calls' = calls + 1
    /\ LET fund == FindOne(funds, fund_id)
           user == FindOne(users, user_id)
           loc == [IdleLocal EXCEPT !.op = "subscribe", !.user_id = user_id,
                                    !.fund_id = fund_id, !.amount = amount,
                                    !.fund = fund]
       IN  IF fund = None THEN MainRaise(loc, "FundNotFound")
           ELSE IF user = None THEN MainRaise(loc, "UserNotFound")
           ELSE IF amount < fund.minimum_amount
           THEN MainRaise([loc EXCEPT !.user = user], "BelowMinimum")
           ELSE IF user.balance < amount
           THEN MainRaise([loc EXCEPT !.user = user], "InsufficientFunds")
           ELSE \E clock \in UtcNow :
                LET transaction == MainTransaction(uuids, clock, user_id, fund_id,
                                       fund, "SUBSCRIPTION", amount)
                IN  /\ now' = clock
                    /\ uuids' = uuids + 2
                    /\ transactions' = Append(transactions, transaction)
                    /\ users' = [users EXCEPT
                          ![user_id].balance = @ - amount,
                          ![user_id].subscribed_funds = Append(@, fund_id)]
                    /\ Finish(1, [loc EXCEPT !.user = user,
                                     !.transaction_dict = transaction],
                              "Transaction")
                    /\ UNCHANGED funds

\* lines 196-255
MainCancelFundSubscription(fund_id, user_id) ==
    /\ calls < MaxCalls
    /\ calls' = calls + 1
    /\ LET fund == FindOne(funds, fund_id)
           user == FindOne(users, user_id)
           loc == [IdleLocal EXCEPT !.op = "cancel", !.user_id = user_id,
                                    !.fund_id = fund_id, !.fund = fund]
       IN  IF fund = None THEN MainRaise(loc, "FundNotFound")
           ELSE IF user = None THEN MainRaise(loc, "UserNotFound")
           ELSE IF ~Contains(user.subscribed_funds, fund_id)
           THEN MainRaise([loc EXCEPT !.user = user], "NotSubscribed")
           ELSE LET invested_amount == InvestedAmount(transactions, user_id, fund_id)
                    held == [loc EXCEPT !.user = user,
                                        !.invested_amount = invested_amount]
                IN  IF invested_amount <= 0
                    THEN MainRaise(held, "NoActiveInvestment")
                    ELSE \E clock \in UtcNow :
                         LET transaction == MainTransaction(uuids, clock, user_id,
                                 fund_id, fund, "CANCELLATION", invested_amount)
                         IN  /\ now' = clock
                             /\ uuids' = uuids + 2
                             /\ transactions' = Append(transactions, transaction)
                             /\ users' = [users EXCEPT
                                   ![user_id].balance = @ + invested_amount,
                                   ![user_id].subscribed_funds = Remove(@, fund_id)]
                             /\ Finish(1, [held EXCEPT !.transaction_dict = transaction],
                                       "Transaction")
                             /\ UNCHANGED funds

MainNext ==
    \/ \E f \in MainReqFunds, a \in MainAmounts, u \in MainReqUsers :
          MainSubscribeToFund(f, a, u)
    \/ \E f \in MainReqFunds, u \in MainReqUsers :
          MainCancelFundSubscription(f, u)

MainSpec == MainInit /\ [][MainNext]_vars

\* C19: in the in-memory engine subscribed_funds holds each fund id at most
\* once after every request, and after every successful cancel of a fund the
\* fund is not in subscribed_funds.
C19_MainSetSemantics ==
    [][/\ \A u \in DOMAIN users, f \in DOMAIN funds :
              Count(users'[u].subscribed_funds, f) <= 1
       /\ (/\ local'[1].op = "cancel"
           /\ local'[1].result = "Transaction"
           /\ transactions' # transactions)
          => ~Contains(users'[local'[1].user_id].subscribed_funds,
                       local'[1].fund_id)]_vars

(***************************************************************************)
(* Login and authentication: login_user (routes/user_routes.py) issues a   *)
(* bearer token, get_current_user (auth/security.py) resolves one.         *)
(***************************************************************************)
\* "expires_in": 86400, the seconds of timedelta(hours=24)
ExpiresIn == 86400

UserDisabled == <<"9c07d4", "03">>
Emails == {"ana@btg.co", "luis@btg.co", "olga@btg.co", "nadie@btg.co"}
Passwords == {"s3cret-pw", "wrong-pw"}

\* pwd_context.hash / pwd_context.verify
HashPassword(password) == <<"bcrypt", password>>
VerifyPassword(plain_password, hashed_password) ==
    hashed_password = HashPassword(plain_password)

\* os.environ: each of the two variables the handlers read is unset or set
\* by the deployment.
Unset == "<unset>"
Environs == [JWT_SECRET_KEY : {Unset, "deployment-secret"},
             JWT_SECRET : {Unset, "deployment-secret"}]

\* os.getenv(name, default)
GetEnv(environ, name, default) ==
    IF environ[name] = Unset THEN default ELSE environ[name]

LoginInit ==
    /\ funds = FundsInit
    /\ users =
         [u \in RouteUsers \cup {UserDisabled} |->
            [balance |-> InitialBalance, subscribed_funds |-> <<>>,
             email |-> IF u = UserA THEN "ana@btg.co"
                       ELSE IF u = UserB THEN "luis@btg.co" ELSE "olga@btg.co",
             hashed_password |-> HashPassword("s3cret-pw"),
             is_active |-> u # UserDisabled]]
    /\ transactions = <<>>
    /\ now = 0
    /\ uuids = 0
    /\ calls = 0
    /\ pc = [p \in Procs |-> "idle"]
    /\ local = [p \in Procs |-> IdleLocal]

\* datetime.utcnow() in seconds: the second of the last reading, the next
\* one, or one more than a token lifetime later.
AuthNow == {now, now + 1, now + ExpiresIn + 1}

\* UserService.authenticate_user
AuthenticateUser(email, password) ==
    LET found == {u \in DOMAIN users : users[u].email = email}
    IN  IF found = {} THEN None
        ELSE LET user == UserDocument(CHOOSE u \in found : TRUE)
             IN  IF ~VerifyPassword(password, user["hashed_password"]) THEN None
                 ELSE IF ~user["is_active"] THEN None
                 ELSE LET response == UserResponse(PopId(user))
                      IN  IF response = ValidationError THEN None
                          ELSE response

\* jose.jwt.encode(claims, key, algorithm="HS256"): the claims and a
\* signature only the same key reproduces.
JwtEncode(claims, key) == [claims |-> claims, key |-> key]

JWTError == [error |-> "JWTError"]

\* jose.jwt.decode(token, key, algorithms=["HS256"]): the signature is
\* checked with key, then the exp claim against the clock.
JwtDecode(token, key, clock) ==
    IF token.key # key THEN JWTError
    ELSE IF "exp" \in DOMAIN token.claims /\ token.claims["exp"] < clock
         THEN JWTError
         ELSE token.claims

\* SecurityManager.verify_token, on a server whose local time is UTC
VerifyToken(token, JWT_SECRET, clock) ==
    LET payload == JwtDecode(token, JWT_SECRET, clock)
    IN  IF payload = JWTError THEN None
        ELSE IF "exp" \notin DOMAIN payload THEN None
        ELSE IF clock > payload["exp"] THEN None
        ELSE payload

\* login_user (lines 45-111)
LoginUser(p, email, password) ==
    /\ pc[p] \in {"idle", "done"}
    /\ calls < MaxCalls
    /\ calls' = calls + 1
    /\ \E clock \in AuthNow, environ \in Environs :
          /\ now' = clock
          /\ LET user == AuthenticateUser(email, password)
                 loc == [IdleLocal EXCEPT !.op = "login"]
             IN  IF user = None THEN Finish(p, loc, "Unauthorized")
                 ELSE IF ~user["is_active"] THEN Finish(p, loc, "Forbidden")
                 ELSE LET token_data == [sub |-> user["email"],
                                         id |-> user["id"],
                                         exp |-> clock + ExpiresIn]
                          secret_key ==
                              GetEnv(environ, "JWT_SECRET_KEY",
                                     "temp-secret-key-for-development")
                      IN  Finish(p, [loc EXCEPT
                                        !.user_id = user["id"],
                                        !.token = JwtEncode(token_data,
                                                            secret_key)],
                                 "Token")
    /\ UNCHANGED <<funds, users, transactions, uuids>>

\* The access tokens login_user has returned
AccessTokens ==
    {local[q].token :
        q \in {r \in Procs : local[r].op = "login" /\ local[r].result = "Token"}}

\* get_current_user (auth/security.py:130-186) on a bearer token
GetCurrentUser(p, token) ==
    /\ pc[p] \in {"idle", "done"}
    /\ calls < MaxCalls
    /\ calls' = calls + 1
    /\ \E clock \in AuthNow, environ \in Environs :
          /\ now' = clock
          /\ LET JWT_SECRET ==
                     GetEnv(environ, "JWT_SECRET",
                            "btg-pactual-super-secret-key-change-in-production")
                 payload == VerifyToken(token, JWT_SECRET, clock)
                 loc == [IdleLocal EXCEPT !.op = "get_current_user",
                                          !.token = token]
             IN  IF payload = None THEN Finish(p, loc, "Unauthorized")
                 ELSE IF \/ "sub" \notin DOMAIN payload
                         \/ "user_id" \notin DOMAIN payload
                      THEN Finish(p, loc, "Unauthorized")
                 ELSE LET user == GetUserById(payload["user_id"])
                      IN  IF user = None
                          THEN Finish(p, [loc EXCEPT !.fault = "token"],
                                      "ServerError")
                          ELSE Finish(p, [loc EXCEPT !.user_id = user["id"],
                                                     !.user = user],
                                      "CurrentUser")
    /\ UNCHANGED <<funds, users, transactions, uuids>>

LoginNext ==
    \/ \E p \in Procs, email \in Emails, password \in Passwords :
          LoginUser(p, email, password)
    \/ \E p \in Procs, token \in AccessTokens : GetCurrentUser(p, token)

LoginSpec == LoginInit /\ [][LoginNext]_vars

\* C21: a token returned by a successful login, presented to get_current_user
\* before it expires, is accepted and resolves to the user who logged in.
\* (The clock never goes back, so a token that has not expired now had not
\* expired when it was presented.)
C21_LoginTokenAuthenticates ==
    \A p \in Procs :
        (/\ pc[p] = "done"
         /\ local[p].op = "get_current_user"
         /\ now <= local[p].token.claims["exp"])
        => /\ local[p].result = "CurrentUser"
           /\ local[p].user_id = local[p].token.claims["id"]

(***************************************************************************)
(* The history query: GET /user/history of fund_routes.py over             *)
(* FundService.get_user_transaction_history, and main.py's                 *)
(* get_user_transaction_history.                                           *)
(***************************************************************************)
\* limit (default 50, 1..100) and offset (default 0, >= 0) of the route
Limits == {1, 50}
Offsets == {0, 1}

\* A registered user who has subscribed 200000 to fund-1 in second 0.
HistoryInit ==
    /\ funds = FundsInit
    /\ users = [u \in UserIds |->
                   [balance |-> InitialBalance - 200000,
                    subscribed_funds |-> <<"fund-1">>]]
    /\ transactions =
         <<TransactionDict(1, 0, CHOOSE u \in UserIds : TRUE, "fund-1",
                           FundsInit["fund-1"], "SUBSCRIPTION", 200000)>>
    /\ now = 0
    /\ uuids = 1
    /\ calls = 0
    /\ pc = [p \in Procs |-> "idle"]
    /\ local = [p \in Procs |-> IdleLocal]

\* fund_routes.py lines 178-198, called with a current_user: the handler
\* passes current_user.id to the service and nothing else.
RouteGetUserTransactionHistory(p, current_user_id, limit, offset) ==
    /\ pc[p] \in {"idle", "done"}
    /\ calls < MaxCalls
    /\ calls' = calls + 1
    /\ Goto(p, [IdleLocal EXCEPT !.op = "history",
                                 !.user_id = current_user_id,
                                 !.limit = limit, !.offset = offset],
            FirstLabel("history"))
    /\ UNCHANGED <<funds, users, transactions, now, uuids>>

HistoryNext ==
    \/ \E p \in Procs, u \in UserIds, f \in CrudFunds, a \in RouteAmounts :
          Call(p, "subscribe", u, f, a)
    \/ \E p \in Procs, u \in UserIds, f \in CrudFunds :
          Call(p, "cancel", u, f, 0)
    \/ \E p \in Procs, u \in UserIds, limit \in Limits, offset \in Offsets :
          RouteGetUserTransactionHistory(p, u, limit, offset)
    \/ \E p \in Procs : Step(p)
    \/ \E p \in Procs : GetUserTransactionHistory(p)

HistorySpec == HistoryInit /\ [][HistoryNext]_vars

\* main.py lines 257-281: the user's entries of TRANSACTIONS_DB in list order
MainGetUserTransactionHistory(user_id) ==
    /\ calls < MaxCalls
    /\ calls' = calls + 1
    /\ LET user_transactions == FindUser(transactions, user_id)
           total_invested ==
               Fold(SelectSeq(user_transactions,
                              LAMBDA tx : tx.status = "COMPLETED"))
       IN  Finish(1, [IdleLocal EXCEPT !.op = "history", !.user_id = user_id,
                                       !.user = FindOne(users, user_id),
                                       !.history = user_transactions,
                                       !.invested_amount = Max(0, total_invested)],
                  "TransactionHistory")
    /\ UNCHANGED <<funds, users, transactions, now, uuids>>

MainHistoryNext ==
    \/ \E f \in MainReqFunds, a \in MainAmounts, u \in MainReqUsers :
          MainSubscribeToFund(f, a, u)
    \/ \E f \in MainReqFunds, u \in MainReqUsers :
          MainCancelFundSubscription(f, u)
    \/ \E u \in MainReqUsers : MainGetUserTransactionHistory(u)

MainHistorySpec == MainInit /\ [][MainHistoryNext]_vars

NewestFirst(history) ==
    \A i, j \in 1..Len(history) :
        history[i].created_at > history[j].created_at => i < j

\* C22: the history query returns the user's transactions newest first: of
\* two returned entries with different created_at the later one comes
\* earlier in the sequence.
C22_HistoryNewestFirst ==
    \A p \in Procs :
        (pc[p] = "done" /\ local[p].op = "history")
        => NewestFirst(local[p].history)

Min(a, b) == IF a <= b THEN a ELSE b

\* The entries at positions offset+1 .. offset+limit of a sequence
Page(whole, limit, offset) ==
    SubSeq(whole, offset + 1, Min(offset + limit, Len(whole)))

\* The sum of the amounts of the user's COMPLETED entries of one type
RECURSIVE SumAmounts(_, _, _)
SumAmounts(txs, user_id, type) ==
    IF txs = <<>> THEN 0
    ELSE (IF /\ Head(txs).user_id = user_id
             /\ Head(txs).status = "COMPLETED"
             /\ Head(txs).transaction_type = type
          THEN Head(txs).amount ELSE 0)
         + SumAmounts(Tail(txs), user_id, type)

\* max(0, subscriptions - cancellations) over the whole ledger
LedgerTotal(user_id) ==
    LET net == SumAmounts(transactions, user_id, "SUBSCRIPTION")
               - SumAmounts(transactions, user_id, "CANCELLATION")
    IN  IF net < 0 THEN 0 ELSE net

\* The step in which p's history query returns
HistoryReturns(p) ==
    /\ pc[p] = "get_user_transaction_history"
    /\ pc'[p] = "done"

\* C23: the history query called with limit L and offset O returns at most L
\* transactions, the entries at positions O+1 .. O+L of the user's
\* newest-first history, and total_invested is computed over the whole ledger.
C23_HistoryPaginated ==
    [][\A p \in Procs :
          HistoryReturns(p)
          => /\ Len(local'[p].history) <= local'[p].limit
             /\ \E whole \in SortCreatedAtDesc(
                                 FindUser(transactions, local[p].user_id)) :
                   local'[p].history =
                       Page(whole, local'[p].limit, local'[p].offset)
             /\ local'[p].invested_amount = LedgerTotal(local[p].user_id)]_vars

\* C24: total_invested reported by the history query is never negative, also
\* for a ledger whose cancellations exceed its subscriptions: it equals
\* max(0, sum of COMPLETED SUBSCRIPTION amounts - sum of COMPLETED
\* CANCELLATION amounts).
C24_TotalInvestedNotNegative ==
    [][\A p \in Procs :
          HistoryReturns(p)
          => /\ local'[p].invested_amount >= 0
             /\ local'[p].invested_amount = LedgerTotal(local[p].user_id)]_vars

\* C24 witness: a history query has returned total_invested 0 for a user whose
\* cancellations exceed the subscriptions.
C24_Witness ==
    \E p \in Procs :
        /\ pc[p] = "done"
        /\ local[p].op = "history"
        /\ local[p].result = "TransactionHistory"
        /\ SumAmounts(local[p].history, local[p].user_id, "SUBSCRIPTION")
             < SumAmounts(local[p].history, local[p].user_id, "CANCELLATION")
        /\ local[p].invested_amount = 0

(***************************************************************************)
(* The catalog routes: list, get and create of app/routes/fund_routes.py   *)
(* and app/routes/funds.py over FundService.                               *)
(***************************************************************************)
\* models/fund.py: FundCategory
FundCategory == {"FPV", "FIC"}

\* The funds of FundsInit with their category.
ApiFundsInit ==
    [f \in DOMAIN FundsInit |->
        [name |-> FundsInit[f].name,
         minimum_amount |-> FundsInit[f].minimum_amount,
         category |-> IF f = "fund-1" THEN "FPV" ELSE "FIC",
         is_active |-> FundsInit[f].is_active]]

ApiInit ==
    /\ funds = ApiFundsInit
    /\ users = [u \in UserIds |->
                   [balance |-> InitialBalance, subscribed_funds |-> <<>>]]
    /\ transactions = <<>>
    /\ now = 0
    /\ uuids = 0
    /\ calls = 0
    /\ pc = [p \in Procs |-> "idle"]
    /\ local = [p \in Procs |-> IdleLocal]

\* Fund(**fund) (models/fund.py:11-17): category is required and must be a
\* FundCategory.
Fund(fund) ==
    IF "category" \notin DOMAIN fund THEN ValidationError
    ELSE IF fund["category"] \notin FundCategory THEN ValidationError
    ELSE fund

\* str.upper() on the category values requests carry
Upper(s) ==
    CASE s = "fpv" -> "FPV"
      [] s = "fic" -> "FIC"
      [] OTHER -> s

\* The query parameters of fund_routes.py's list route as the handler gets
\* them: is_active always (default True), category and min_amount when the
\* request has them.
QueryCategories == {"FPV", "fic"}
QueryMinAmounts == {100000}
Queries ==
    [is_active : BOOLEAN]
    \cup [is_active : BOOLEAN, category : QueryCategories]
    \cup [is_active : BOOLEAN, min_amount : QueryMinAmounts]
    \cup [is_active : BOOLEAN, category : QueryCategories,
          min_amount : QueryMinAmounts]

\* FundService.get_all_funds: the cursor of find({"is_active": True}), which
\* has no sort, so the documents come in an order MongoDB chooses; each is
\* returned as a Fund with its id.
GetAllFunds ==
    LET active == {f \in DOMAIN funds : funds[f].is_active}
        n == Cardinality(active)
        orders == {o \in [1..n -> active] :
                     \A i, j \in 1..n : i # j => o[i] # o[j]}
    IN  {[i \in 1..n |->
            [g \in DOMAIN funds[o[i]] \cup {"id"} |->
                IF g = "id" THEN o[i] ELSE funds[o[i]][g]]] : o \in orders}

\* Every document get_all_funds reads converts to a Fund.
AllFundsConvert ==
    \A f \in DOMAIN funds : funds[f].is_active => Fund(funds[f]) # ValidationError

\* fund_routes.py lines 46-52: the filters of the list route
ApplyFilters(listed, query) ==
    LET by_category ==
            IF "category" \in DOMAIN query
            THEN SelectSeq(listed,
                     LAMBDA f : f["category"] = Upper(query["category"]))
            ELSE listed
        by_active ==
            SelectSeq(by_category, LAMBDA f : f["is_active"] = query["is_active"])
    IN  IF "min_amount" \in DOMAIN query
        THEN SelectSeq(by_active,
                 LAMBDA f : f["minimum_amount"] <= query["min_amount"])
        ELSE by_active

\* fund_routes.py lines 28-60: GET / with filters.  A failure of the read or
\* of a conversion is HTTP 500.
FundRoutesGetAllFunds(p, query) ==
    /\ pc[p] \in {"idle", "done"}
    /\ calls < MaxCalls
    /\ calls' = calls + 1
    /\ LET loc == [IdleLocal EXCEPT !.op = "get_all_funds",
                                    !.router = "fund_routes", !.query = query]
       IN  \/ /\ AllFundsConvert
              /\ \E listed \in GetAllFunds :
                    Finish(p, [loc EXCEPT !.listing = ApplyFilters(listed, query)],
                           "Funds")
           \/ Finish(p, [loc EXCEPT !.fault = "find"], "ServerError")
    /\ UNCHANGED <<funds, users, transactions, now, uuids>>

\* funds.py lines 22-33: GET / returns what the service returns
FundsGetAllFunds(p) ==
    /\ pc[p] \in {"idle", "done"}
    /\ calls < MaxCalls
    /\ calls' = calls + 1
    /\ LET loc == [IdleLocal EXCEPT !.op = "get_all_funds", !.router = "funds"]
       IN  \/ /\ AllFundsConvert
              /\ \E listed \in GetAllFunds :
                    Finish(p, [loc EXCEPT !.listing = listed], "Funds")
           \/ Finish(p, [loc EXCEPT !.fault = "find"], "ServerError")
    /\ UNCHANGED <<funds, users, transactions, now, uuids>>

\* GET /{fund_id} of either router (fund_routes.py:62-77, funds.py:35-47)
\* over FundService.get_fund_by_id (fund_service.py:32-43), which returns
\* None when find_one or the conversion raises.
RouteGetFundById(p, router, fund_id) ==
    /\ pc[p] \in {"idle", "done"}
    /\ calls < MaxCalls
    /\ calls' = calls + 1
    /\ LET loc == [IdleLocal EXCEPT !.op = "get_fund_by_id", !.router = router,
                                    !.fund_id = fund_id]
           fund == FindOne(funds, fund_id)
       IN  \/ IF fund = None THEN Finish(p, loc, "FundNotFound")
              ELSE IF Fund(fund) = ValidationError
              THEN Finish(p, [loc EXCEPT !.fault = "conversion"], "FundNotFound")
              ELSE Finish(p, [loc EXCEPT !.fund = fund], "Fund")
           \/ Finish(p, [loc EXCEPT !.fault = "find_one"], "FundNotFound")
    /\ UNCHANGED <<funds, users, transactions, now, uuids>>

\* FundCreate (models/fund.py:30-33): name: str, minimum_amount: int,
\* category: FundCategory
FundCreateMinimums == {125000, 0}
FundCreates ==
    [name : CatalogNames, minimum_amount : FundCreateMinimums, category : {"FPV"}]

\* funds.py lines 49-61: POST / calls FundService.create_fund
FundsCreateFund(p, fund_data) ==
    /\ pc[p] \in {"idle", "done"}
    /\ calls < MaxCalls
    /\ calls' = calls + 1
    /\ Goto(p, [IdleLocal EXCEPT !.op = "create_fund", !.router = "funds",
                                 !.fund = fund_data],
            "create_find_one")
    /\ UNCHANGED <<funds, users, transactions, now, uuids>>

\* fund_routes.py lines 79-100, called with a current_user: current_user is
\* a UserResponse, which has no field role, so line 94 raises AttributeError.
FundRoutesCreateFund(p, fund_data) ==
    /\ pc[p] \in {"idle", "done"}
    /\ calls < MaxCalls
    /\ calls' = calls + 1
    /\ Finish(p, [IdleLocal EXCEPT !.op = "create_fund",
                                   !.router = "fund_routes",
                                   !.fund = fund_data, !.fault = "role"],
              "ServerError")
    /\ UNCHANGED <<funds, users, transactions, now, uuids>>

ApiFundIds == {"fund-1", "fund-3", NoSuchFund}

ApiNext ==
    \/ \E p \in Procs, query \in Queries : FundRoutesGetAllFunds(p, query)
    \/ \E p \in Procs : FundsGetAllFunds(p)
    \/ \E p \in Procs, router \in {"fund_routes", "funds"}, f \in ApiFundIds :
          RouteGetFundById(p, router, f)
    \/ \E p \in Procs, fund_data \in FundCreates : FundsCreateFund(p, fund_data)
    \/ \E p \in Procs, fund_data \in FundCreates : FundRoutesCreateFund(p, fund_data)
    \/ \E p \in Procs : CreateFindOne(p)
    \/ \E p \in Procs : CreateInsertOne(p)

ApiSpec == ApiInit /\ [][ApiNext]_vars

\* C25: a storage failure during a fund lookup (get_fund_by_id) reaches the
\* caller as a server failure and is never reported as the fund not being
\* found.
C25_LookupFailureSurfaced ==
    \A p \in Procs :
        (/\ pc[p] = "done"
         /\ local[p].op = "get_fund_by_id"
         /\ local[p].fault = "find_one")
        => /\ local[p].result # "FundNotFound"
           /\ local[p].response = 500

\* C26: creating a fund whose name already exists is reported to the API
\* caller as a client error (the typed DuplicateName outcome), not as a
\* generic server error.
C26_DuplicateNameIsClientError ==
    \A p \in Procs :
        (/\ pc[p] = "done"
         /\ local[p].op = "create_fund"
         /\ local[p].router # "none"
         /\ local[p].result = "DuplicateName")
        => /\ local[p].response >= 400
           /\ local[p].response < 500

\* The step in which p's create_fund call ends
CreateReturns(p) ==
    /\ local'[p].op = "create_fund"
    /\ pc'[p] = "done"
    /\ \/ pc[p] \in {"create_find_one", "create_insert_one"}
       \/ local'[p].fault = "role" /\ calls' = calls + 1

\* C27: every fund create_fund admits into the catalog has
\* minimum_amount > 0, and a create request with minimum_amount <= 0 is
\* rejected and leaves the catalog unchanged.
C27_MinimumAmountPositive ==
    /\ [](\A f \in DOMAIN funds : funds[f].minimum_amount > 0)
    /\ [][\A p \in Procs :
             (CreateReturns(p) /\ local'[p].fund["minimum_amount"] <= 0)
             => /\ local'[p].result # "Fund"
                /\ funds' = funds]_vars

\* Fund names in ascending order of their characters' code points
NamesAscending ==
    <<"DEUDAPRIVADA", "FDO-ACCIONES", "FPV_BTG_PACTUAL_DINAMICA",
      "FPV_BTG_PACTUAL_ECOPETROL", "FPV_BTG_PACTUAL_RECAUDADORA">>

NameRank(name) == CHOOSE i \in 1..Len(NamesAscending) : NamesAscending[i] = name

SortedByName(listing) ==
    \A i, j \in 1..Len(listing) :
        i < j => NameRank(listing[i]["name"]) <= NameRank(listing[j]["name"])

\* C29: the fund listing is ordered by name ascending: for every catalog
\* state the sequence the list-funds operation returns is sorted by name.
C29_ListingSortedByName ==
    \A p \in Procs :
        (/\ pc[p] = "done"
         /\ local[p].op = "get_all_funds"
         /\ local[p].result = "Funds")
        => SortedByName(local[p].listing)

\* The step in which the list route of fund_routes.py returns a listing
ListingReturns(p) ==
    /\ pc'[p] = "done"
    /\ calls' = calls + 1
    /\ local'[p].op = "get_all_funds"
    /\ local'[p].router = "fund_routes"
    /\ local'[p].result = "Funds"
    /\ \A q \in Procs \ {p} : local'[q] = local[q]

\* A fund satisfies every filter the request supplies.
Matches(fund, query) ==
    /\ "category" \in DOMAIN query => fund.category = Upper(query["category"])
    /\ fund.is_active = query["is_active"]
    /\ "min_amount" \in DOMAIN query => fund.minimum_amount <= query["min_amount"]

\* C30: the fund listing returns exactly the catalog funds that satisfy every
\* supplied filter (category, is_active, minimum_amount <= min_amount); for a
\* catalog holding inactive funds a request with is_active=false returns
\* those inactive funds.
C30_ListingMatchesFilters ==
    [][\A p \in Procs :
          ListingReturns(p)
          => {local'[p].listing[i]["id"] : i \in 1..Len(local'[p].listing)}
             = {f \in DOMAIN funds : Matches(funds[f], local'[p].query)}]_vars

(***************************************************************************)
(* The amounts of ledger entries, in FundService behind the subscribe and  *)
(* cancel routes and in main.py's engine.                                  *)
(***************************************************************************)
\* The amounts requests carry: any int
AnyAmounts == {-200000, 0, 200000}

\* The catalog after create_fund has admitted a fund whose minimum_amount is 0
AmountFundsInit ==
    InsertOne(FundsInit, "fund-4",
              [name |-> "FPV_BTG_PACTUAL_ECOPETROL", minimum_amount |-> 0,
               is_active |-> TRUE])

AmountFunds == {"fund-1", "fund-4"}

\* Mutation of SubscriptionRequest: amount has no gt=0 constraint.
SubscriptionRequest_NoValidation(fund_id, amount) ==
    [fund_id |-> fund_id, amount |-> amount]

\* SubscriptionRequest(fund_id, amount) (user_balance.py:21-23): amount: int
\* with gt=0
SubscriptionRequest(fund_id, amount) ==
    IF amount > 0 THEN [fund_id |-> fund_id, amount |-> amount]
    ELSE ValidationError

\* fund_routes.py lines 116-146, called with a current_user: the request body
\* is parsed into a SubscriptionRequest, which the service is called with.
RouteSubscribeToFund(p, current_user_id, fund_id, amount) ==
    /\ pc[p] \in {"idle", "done"}
    /\ calls < MaxCalls
    /\ calls' = calls + 1
    /\ LET subscription == SubscriptionRequest(fund_id, amount)
           loc == [IdleLocal EXCEPT !.op = "subscribe",
                                    !.user_id = current_user_id,
                                    !.fund_id = fund_id, !.amount = amount]
       IN  IF subscription = ValidationError
           THEN Finish(p, loc, "ValidationError")
           ELSE Goto(p, [loc EXCEPT !.fund_id = subscription.fund_id,
                                    !.amount = subscription.amount],
                     "sub_find_fund")
    /\ UNCHANGED <<funds, users, transactions, now, uuids>>

\* The engine of a behaviour: main.py's in-memory one or FundService.
IsMain == funds = MainFundsDb

AmountInit ==
    \/ MainInit
    \/ /\ funds = AmountFundsInit
       /\ users = [u \in UserIds |->
                      [balance |-> InitialBalance, subscribed_funds |-> <<>>]]
       /\ transactions = <<>>
       /\ now = 0
       /\ uuids = 0
       /\ calls = 0
       /\ pc = [p \in Procs |-> "idle"]
       /\ local = [p \in Procs |-> IdleLocal]

AmountNext ==
    \/ \E p \in Procs, u \in UserIds, f \in AmountFunds, a \in AnyAmounts :
          ~IsMain /\ RouteSubscribeToFund(p, u, f, a)
    \/ \E p \in Procs, u \in UserIds, f \in AmountFunds :
          ~IsMain /\ Call(p, "cancel", u, f, 0)
    \/ \E p \in Procs : ~IsMain /\ Step(p)
    \/ \E f \in MainReqFunds, a \in AnyAmounts, u \in MainReqUsers :
          IsMain /\ MainSubscribeToFund(f, a, u)
    \/ \E f \in MainReqFunds, u \in MainReqUsers :
          IsMain /\ MainCancelFundSubscription(f, u)

AmountSpec == AmountInit /\ [][AmountNext]_vars

\* C28: every ledger entry created by Subscribe or Cancel has amount > 0, in
\* every reachable state of the FundService engine and of the in-memory
\* engine of main.py; so has every entry a handler has built and not yet
\* stored.
C28_LedgerAmountsPositive ==
    /\ \A i \in 1..Len(transactions) : transactions[i].amount > 0
    /\ \A p \in Procs :
          local[p].transaction_dict # NoTransaction
          => local[p].transaction_dict.amount > 0

\* C28 witness: the ledger holds a subscription and a cancellation, and a
\* subscribe request with an amount that is not positive has been refused.
C28_Witness ==
    /\ \E i, j \in 1..Len(transactions) :
          /\ transactions[i].transaction_type = "SUBSCRIPTION"
          /\ transactions[j].transaction_type = "CANCELLATION"
    /\ \E p \in Procs :
          /\ pc[p] = "done"
          /\ local[p].op = "subscribe"
          /\ local[p].amount <= 0
          /\ local[p].result \in {"ValidationError", "BelowMinimum"}

(***************************************************************************)
(* Sequential Subscribe and Cancel calls with balance queries:             *)
(* FundService.get_user_balance called on the service.                     *)
(***************************************************************************)
\* A call of FundService.get_user_balance(user_id)
GetUserBalanceCall(p, user_id) ==
    /\ pc[p] \in {"idle", "done"}
    /\ calls < MaxCalls
    /\ calls' = calls + 1
    /\ Goto(p, [IdleLocal EXCEPT !.op = "balance", !.user_id = user_id],
            FirstLabel("balance"))
    /\ UNCHANGED <<funds, users, transactions, now, uuids>>

BalanceNext ==
    \/ \E p \in Procs : Quiet /\ Subscribe(p)
    \/ \E p \in Procs : Quiet /\ Cancel(p)
    \/ \E p \in Procs, u \in ReqUsers : Quiet /\ GetUserBalanceCall(p, u)
    \/ \E p \in Procs : Step(p)
    \/ \E p \in Procs : GetUserBalance(p)

BalanceSpec == Init /\ [][BalanceNext]_vars

\* The sum over a set of funds of netInvested(user, fund)
RECURSIVE SumNetInvested(_, _)
SumNetInvested(user_id, fund_ids) ==
    IF fund_ids = {} THEN 0
    ELSE LET f == CHOOSE g \in fund_ids : TRUE
         IN  NetInvested(user_id, f) + SumNetInvested(user_id, fund_ids \ {f})

\* C31: in a sequential sequence of Subscribe and Cancel calls, with no admin
\* balance adjustment, user.balance plus the sum over all funds of
\* netInvested(user, fund) stays equal to the starting balance 500000, and
\* the current_balance get_user_balance reports is that constant.
C31_MoneyConserved ==
    /\ \A u \in UserIds :
          users[u].balance + SumNetInvested(u, DOMAIN funds) = InitialBalance
    /\ \A p \in Procs :
          (/\ pc[p] = "done"
           /\ local[p].op = "balance"
           /\ local[p].result = "UserBalance")
          => local[p].user.balance + local[p].invested_amount = InitialBalance

\* C31 witness: get_user_balance has answered for a user who holds an
\* investment, so that part of the 500000 is in the ledger.
C31_Witness ==
    \E p \in Procs :
        /\ pc[p] = "done"
        /\ local[p].op = "balance"
        /\ local[p].result = "UserBalance"
        /\ local[p].invested_amount > 0
        /\ local[p].user.balance < InitialBalance

\* C32: a Subscribe or Cancel call whose preconditions all pass while storage
\* is available returns a COMPLETED transaction and applies its effect, also
\* when the same user completed another call within the same clock second:
\* no call that has passed its checks is failed because the transaction_id
\* it built is already taken.
C32_SameSecondCallsComplete ==
    [][\A p \in Procs :
          (/\ pc[p] \in {"sub_insert", "can_insert"}
           /\ DuplicateKey(p, local[p].transaction_dict))
          => ~(pc'[p] = "done" /\ local'[p].result = "ServerError")]_vars

(***************************************************************************)
(* The two engines side by side.  main.py (src/app/main.py) and            *)
(* FundService (src/app/services/fund_service.py) are given the same       *)
(* requests one after the other: main.py answers a request for its account *)
(* User123 in one step, then FundService answers the same request for its  *)
(* account UserA.  Both read the same catalog of active funds; each        *)
(* engine's ledger entries are those of its own account.  pc[1] is the     *)
(* position of the request: "done" when main.py has answered, "replayed"   *)
(* when it has been handed to FundService.                                 *)
(***************************************************************************)
EngineUsers == {User123, UserA}

EquivInit ==
    /\ funds = MainFundsDb
    /\ users = [u \in EngineUsers |->
                   [balance |-> InitialBalance, subscribed_funds |-> <<>>]]
    /\ transactions = <<>>
    /\ now = 0
    /\ uuids = 0
    /\ calls = 0
    /\ pc = [p \in Procs |-> "idle"]
    /\ local = [p \in Procs |-> IdleLocal]

\* Both engines have answered every request made so far.
BothAnswered ==
    \/ pc[1] = "idle" /\ pc[2] = "idle"
    \/ pc[1] = "replayed" /\ pc[2] = "done"

\* The request main.py has just answered enters FundService (lines 121-126,
\* 200-205 of fund_service.py).
ReplayCall ==
    /\ pc[1] = "done"
    /\ pc[2] \in {"idle", "done"}
    /\ pc' = [pc EXCEPT ![1] = "replayed", ![2] = FirstLabel(local[1].op)]
    /\ local' = [local EXCEPT ![2] =
                    [IdleLocal EXCEPT !.op = local[1].op, !.user_id = UserA,
                                      !.fund_id = local[1].fund_id,
                                      !.amount = local[1].amount]]
    /\ UNCHANGED <<funds, users, transactions, now, uuids, calls>>

\* A step of FundService on a database that is up: an insert or update
\* fails only for a reason the data gives (the unique index).
ReplayStep ==
    /\ Step(2)
    /\ local'[2].fault # "none" =>
          /\ pc[2] \in {"sub_insert", "can_insert"}
          /\ DuplicateKey(2, local[2].transaction_dict)

EquivNext ==
    \/ \E f \in MainReqFunds, a \in MainAmounts :
          BothAnswered /\ MainSubscribeToFund(f, a, User123)
    \/ \E f \in MainReqFunds :
          BothAnswered /\ MainCancelFundSubscription(f, User123)
    \/ ReplayCall
    \/ ReplayStep

EquivSpec == EquivInit /\ [][EquivNext]_vars

\* What a request was answered with: the amount of the transaction on
\* success, the kind of failure otherwise.
Outcome(p) ==
    IF local[p].result = "Transaction"
    THEN <<"Transaction", local[p].transaction_dict.amount>>
    ELSE <<local[p].result, 0>>

\* C33: on every sequential sequence of subscribe and cancel requests by one
\* user over the same catalog of active funds, main.py and FundService give
\* each request the same outcome (success with the same amount, or the same
\* failure kind) and end with the same balance, the same set of subscribed
\* funds and the same netInvested per fund.
C33_EnginesAgree ==
    (pc[1] = "replayed" /\ pc[2] = "done") =>
        /\ Outcome(1) = Outcome(2)
        /\ users[User123].balance = users[UserA].balance
        /\ Members(users[User123].subscribed_funds)
              = Members(users[UserA].subscribed_funds)
        /\ \A f \in DOMAIN funds :
              NetInvested(User123, f) = NetInvested(UserA, f)

(***************************************************************************)
(* User isolation (fund_service.py lines 171-182, 257-268)                 *)
(***************************************************************************)
\* The ledger entries that are not user_id's.
OthersEntries(txs, user_id) ==
    SelectSeq(txs, LAMBDA t : t.user_id # user_id)

\* C34: a step of a Subscribe or Cancel call made for one user, whether the
\* call succeeds or fails, leaves every other user's balance and
\* subscribed_funds and every ledger entry of other users unchanged.
C34_UserIsolation ==
    [][\A p \in Procs :
          (/\ local[p].op \in {"subscribe", "cancel"}
           /\ pc[p] \notin {"idle", "done"}
           /\ pc'[p] # pc[p])
          => /\ \A u \in DOMAIN users \ {local[p].user_id} :
                   users'[u] = users[u]
             /\ OthersEntries(transactions', local[p].user_id)
                   = OthersEntries(transactions, local[p].user_id)]_vars

\* A call for one user has committed while the other user holds an
\* investment of their own.
C34_Witness ==
    \E p \in Procs :
       /\ pc[p] = "done"
       /\ local[p].op \in {"subscribe", "cancel"}
       /\ local[p].result = "Transaction"
       /\ \E u \in DOMAIN users \ {local[p].user_id} :
             /\ users[u].balance < InitialBalance
             /\ users[u].subscribed_funds # <<>>
             /\ \E i \in 1..Len(transactions) :
                   /\ transactions[i].user_id = u
                   /\ i < Len(transactions)

(***************************************************************************)
(* The admin balance adjustment: PUT /{user_id}/balance                    *)
(* (src/app/routes/user_routes.py lines 218-258) and                       *)
(* UserService.update_user_balance (src/app/services/user_service.py lines *)
(* 154-196).  The route is entered with an admin as current_admin.  The    *)
(* method reads the user, writes the new balance with $set outside any     *)
(* transaction, and reads the user again for its answer.                   *)
(***************************************************************************)
\* Query parameters of the route: amount: int, operation: str
AdminRequests ==
    {[amount |-> 400000, operation |-> "add"],
     [amount |-> 400000, operation |-> "subtract"],
     [amount |-> -100000, operation |-> "add"],
     [amount |-> 400000, operation |-> "set"]}

\* Mutation of BalanceError: the check of the new balance is left out.
BalanceError_NoCheck(current_balance, amount, operation) ==
    IF operation \in {"add", "subtract"} THEN "none" ELSE "Invalid operation"

\* lines 169-176: the ValueError the method raises, if any
BalanceError(current_balance, amount, operation) ==
    IF operation = "add" THEN "none"
    ELSE IF operation = "subtract"
    THEN IF current_balance - amount < 0 THEN "Insufficient balance" ELSE "none"
    ELSE "Invalid operation"

\* lines 169-172: new_balance
NewBalance(current_balance, amount, operation) ==
    IF operation = "add" THEN current_balance + amount
    ELSE current_balance - amount

\* user_routes.py lines 234-247: the route's checks, then the call
RouteUpdateUserBalance(p, user_id, amount, operation) ==
    /\ pc[p] \in {"idle", "done"}
    /\ calls < MaxCalls
    /\ calls' = calls + 1
    /\ LET loc == [IdleLocal EXCEPT !.op = "update_user_balance",
                                    !.user_id = user_id, !.amount = amount,
                                    !.operation = operation]
       IN  IF operation \notin {"add", "subtract"}
           THEN Finish(p, loc, "BadRequest")
           ELSE IF amount < 0 THEN Finish(p, loc, "BadRequest")
           ELSE Goto(p, loc, "balance_find_user")
    /\ UNCHANGED <<funds, users, transactions, now, uuids>>

\* user_service.py lines 163-176
BalanceFindUser(p) ==
    /\ pc[p] = "balance_find_user"
    /\ LET user == FindOne(users, local[p].user_id)
           loc == [local[p] EXCEPT !.user = user]
       IN  IF user = None THEN Finish(p, loc, "UserNotFound")
           ELSE LET error == BalanceError(user.balance, loc.amount,
                                          loc.operation)
                IN  IF error = "Insufficient balance"
                    THEN Finish(p, loc, "InsufficientBalance")
                    ELSE IF error = "Invalid operation"
                    THEN Finish(p, loc, "InvalidOperation")
                    ELSE Goto(p, loc, "balance_update")
    /\ UNCHANGED <<funds, users, transactions, now, uuids, calls>>

\* lines 179-182: update_one with $set, in no session.  The write makes every
\* open transaction that will write this user document conflict.  An
\* exception reaches the except clause of lines 191-196.
BalanceUpdate(p) ==
    /\ pc[p] = "balance_update"
    /\ \/ /\ users' = [users EXCEPT ![local[p].user_id].balance =
                          NewBalance(local[p].user.balance, local[p].amount,
                                     local[p].operation)]
          /\ pc' = [pc EXCEPT ![p] = "balance_return"]
          /\ local' = MarkConflicts(p, local[p])
       \/ /\ Finish(p, [local[p] EXCEPT !.fault = "update"], "ServerError")
          /\ UNCHANGED users
    /\ UNCHANGED <<funds, transactions, now, uuids, calls>>

\* lines 185-190: the user is read again and passed to UserResponse as read;
\* pydantic's ValidationError is a ValueError, which line 189 raises again.
BalanceReturn(p) ==
    /\ pc[p] = "balance_return"
    /\ LET updated_user == UserResponse(UserDocument(local[p].user_id))
       IN  IF updated_user = ValidationError
           THEN Finish(p, [local[p] EXCEPT !.fault = "conversion"],
                       "ValidationError")
           ELSE Finish(p, local[p], "UserResponse")
    /\ UNCHANGED <<funds, users, transactions, now, uuids, calls>>

UpdateUserBalance(p) ==
    \/ BalanceFindUser(p)
    \/ BalanceUpdate(p)
    \/ BalanceReturn(p)

\* The funds of the Subscribe and Cancel calls made beside the adjustments.
AdminFunds == {"fund-1", "fund-2"}

AdminNext ==
    \/ \E p \in Procs, u \in UserIds, f \in AdminFunds, a \in Amounts :
          Call(p, "subscribe", u, f, a)
    \/ \E p \in Procs, u \in UserIds, f \in AdminFunds :
          Call(p, "cancel", u, f, 0)
    \/ \E p \in Procs, u \in ReqUsers, r \in AdminRequests :
          RouteUpdateUserBalance(p, u, r.amount, r.operation)
    \/ \E p \in Procs : Step(p)
    \/ \E p \in Procs : UpdateUserBalance(p)

AdminSpec == Init /\ [][AdminNext]_vars

\* C35: the admin balance adjustment never drives a balance negative: a
\* subtract of more than the balance the method reads fails with
\* 'Insufficient balance' and leaves the balance unchanged, and after any
\* admin add/subtract requests interleaved with Subscribe and Cancel calls
\* every balance is >= 0.
C35_AdjustmentKeepsBalanceNonNegative ==
    /\ [](\A u \in DOMAIN users : users[u].balance >= 0)
    /\ [][\A p \in Procs :
            (/\ pc[p] = "balance_find_user"
             /\ pc'[p] # pc[p]
             /\ local[p].user_id \in DOMAIN users
             /\ local[p].operation = "subtract"
             /\ local[p].amount > users[local[p].user_id].balance)
            => /\ pc'[p] = "done"
               /\ local'[p].result = "InsufficientBalance"
               /\ users' = users]_vars

\* A subtract of more than the balance was refused while the user holds a
\* subscription.
C35_Witness ==
    \E p \in Procs :
       /\ pc[p] = "done"
       /\ local[p].op = "update_user_balance"
       /\ local[p].result = "InsufficientBalance"
       /\ users[local[p].user_id].balance < local[p].amount
       /\ users[local[p].user_id].subscribed_funds # <<>>

(***************************************************************************)
(* The profile update: PUT /profile (src/app/routes/user_routes.py lines   *)
(* 127-153) and UserService.update_user (src/app/services/user_service.py  *)
(* lines 118-152).  The route is entered with a current_user.  A request   *)
(* body is a JSON object; a phone number is written <<first three          *)
(* characters, rest>>.  A key that is absent and a key whose value is None *)
(* are the same to line 128, so None values are written as absent keys.    *)
(***************************************************************************)
UserUpdateFields == {"phone", "full_name", "notification_preference"}

Bodies ==
    {[full_name |-> "Ana Ruiz", notification_preference |-> "sms"],
     [phone |-> <<"+57", "3109876543">>, balance |-> 0,
      subscribed_funds |-> <<>>],
     [phone |-> <<"300", "1234567">>],
     [notification_preference |-> "push"]}

\* Mutation of UserUpdate: the model keeps the keys that are not its fields
\* (Config.extra = 'allow').
UserUpdate_ExtraAllowed(body, clock) ==
    IF "phone" \in DOMAIN body /\ body.phone[1] # "+57" THEN ValidationError
    ELSE IF /\ "notification_preference" \in DOMAIN body
            /\ body.notification_preference \notin {"email", "sms"}
    THEN ValidationError
    ELSE [f \in DOMAIN body \cup {"updated_at"} |->
             IF f = "updated_at" THEN clock ELSE body[f]]

\* UserUpdate(**body) (models/user.py lines 71-81): the phone number has the
\* Colombian prefix, the preference is one of the enum's values, keys that
\* are not fields of the model are dropped, updated_at is utcnow().
UserUpdate(body, clock) ==
    IF "phone" \in DOMAIN body /\ body.phone[1] # "+57" THEN ValidationError
    ELSE IF /\ "notification_preference" \in DOMAIN body
            /\ body.notification_preference \notin {"email", "sms"}
    THEN ValidationError
    ELSE [f \in (DOMAIN body \cap UserUpdateFields) \cup {"updated_at"} |->
             IF f = "updated_at" THEN clock ELSE body[f]]

\* update_one({"_id": user_id}, {"$set": update_data})
Set(doc, update_data) ==
    [f \in DOMAIN doc \cup DOMAIN update_data |->
        IF f \in DOMAIN update_data THEN update_data[f] ELSE doc[f]]

\* user_routes.py lines 127-142: the body is validated into a UserUpdate
\* (a failure is answered 422 before the handler runs), then the service is
\* called.  The model's own updated_at is replaced at line 129 before any
\* use, so the reading of the clock that fills it is not a step of its own.
RouteUpdateUserProfile(p, user_id, body) ==
    /\ pc[p] \in {"idle", "done"}
    /\ calls < MaxCalls
    /\ calls' = calls + 1
    /\ LET user_data == UserUpdate(body, now)
           loc == [IdleLocal EXCEPT !.op = "update_user",
                                    !.user_id = user_id,
                                    !.user_data = user_data]
       IN  IF user_data = ValidationError
           THEN Finish(p, [loc EXCEPT !.fault = "body"], "UnprocessableEntity")
           ELSE Goto(p, loc, "profile_update")
    /\ UNCHANGED <<funds, users, transactions, now, uuids>>

\* user_service.py lines 127-138: update_data is user_data with updated_at
\* read again; the write is in no session, so it makes every open
\* transaction that will write this user document conflict.
ProfileUpdate(p) ==
    /\ pc[p] = "profile_update"
    /\ \E clock \in UtcNow :
          LET update_data == [local[p].user_data EXCEPT !.updated_at = clock]
          IN  /\ now' = clock
              /\ \/ /\ local[p].user_id \in DOMAIN users
                    /\ users' = [users EXCEPT ![local[p].user_id] =
                                    Set(@, update_data)]
                    /\ pc' = [pc EXCEPT ![p] = "profile_return"]
                    /\ local' = MarkConflicts(p, local[p])
                 \/ /\ local[p].user_id \notin DOMAIN users
                    /\ Finish(p, local[p], "UserNotFound")
                    /\ UNCHANGED users
                 \/ /\ Finish(p, [local[p] EXCEPT !.fault = "update"],
                              "ServerError")
                    /\ UNCHANGED users
    /\ UNCHANGED <<funds, transactions, uuids, calls>>

\* lines 140-146: the user is read again and passed to UserResponse as read;
\* pydantic's ValidationError is a ValueError, which line 145 raises again.
ProfileReturn(p) ==
    /\ pc[p] = "profile_return"
    /\ LET updated_user == UserResponse(UserDocument(local[p].user_id))
       IN  IF updated_user = ValidationError
           THEN Finish(p, [local[p] EXCEPT !.fault = "conversion"],
                       "ValidationError")
           ELSE Finish(p, local[p], "UserResponse")
    /\ UNCHANGED <<funds, users, transactions, now, uuids, calls>>

UpdateUser(p) ==
    \/ ProfileUpdate(p)
    \/ ProfileReturn(p)

\* The fund of the Subscribe and Cancel calls made beside the updates.
ProfileFunds == {"fund-1"}

ProfileNext ==
    \/ \E p \in Procs, u \in UserIds, f \in ProfileFunds, a \in Amounts :
          Call(p, "subscribe", u, f, a)
    \/ \E p \in Procs, u \in UserIds, f \in ProfileFunds :
          Call(p, "cancel", u, f, 0)
    \/ \E p \in Procs, u \in ReqUsers, body \in Bodies :
          RouteUpdateUserProfile(p, u, body)
    \/ \E p \in Procs : Step(p)
    \/ \E p \in Procs : UpdateUser(p)

ProfileSpec == Init /\ [][ProfileNext]_vars

ProfileFields == UserUpdateFields \cup {"updated_at"}

\* C36: a profile update changes only phone, full_name,
\* notification_preference and updated_at: every step of it leaves every
\* user's balance and subscribed_funds, every other field, and the whole
\* ledger unchanged, whatever the request body holds.
C36_ProfileUpdateFrame ==
    [][\A p \in Procs :
          (local[p].op = "update_user" /\ pc[p] # "done" /\ pc'[p] # pc[p])
          => /\ transactions' = transactions
             /\ DOMAIN users' = DOMAIN users
             /\ \A u \in DOMAIN users :
                   /\ users'[u].balance = users[u].balance
                   /\ users'[u].subscribed_funds = users[u].subscribed_funds
                   /\ DOMAIN users'[u] \subseteq DOMAIN users[u] \cup ProfileFields
                   /\ \A f \in DOMAIN users[u] \ ProfileFields :
                         users'[u][f] = users[u][f]]_vars

\* A body that also carries balance and subscribed_funds was written to the
\* document of a user who holds a subscription.
C36_Witness ==
    \E p \in Procs :
       /\ pc[p] = "done"
       /\ local[p].op = "update_user"
       /\ local[p].user_id \in DOMAIN users
       /\ "phone" \in DOMAIN users[local[p].user_id]
       /\ users[local[p].user_id].phone = <<"+57", "3109876543">>
       /\ users[local[p].user_id].balance < InitialBalance
       /\ users[local[p].user_id].subscribed_funds # <<>>

(***************************************************************************)
(* The seeding script (src/app/database/seed_data.py).  insert_many gives  *)
(* each document an ObjectId as _id, written "oid-1" ... "oid-5"; no       *)
(* fund_id of a request, which is a str, equals one of them.               *)
(***************************************************************************)
\* INITIAL_FUNDS (lines 17-48); FundCategory.FPV is the str "FPV"
INITIAL_FUNDS ==
    <<[name |-> "FPV_BTG_PACTUAL_RECAUDADORA", category |-> "FPV",
       minimum_amount |-> 75000, is_active |-> TRUE],
      [name |-> "FPV_BTG_PACTUAL_ECOPETROL", category |-> "FPV",
       minimum_amount |-> 125000, is_active |-> TRUE],
      [name |-> "DEUDAPRIVADA", category |-> "FIC",
       minimum_amount |-> 50000, is_active |-> TRUE],
      [name |-> "FDO-ACCIONES", category |-> "FIC",
       minimum_amount |-> 250000, is_active |-> TRUE],
      [name |-> "FPV_BTG_PACTUAL_DINAMICA", category |-> "FPV",
       minimum_amount |-> 100000, is_active |-> TRUE]>>

ObjectIds == <<"oid-1", "oid-2", "oid-3", "oid-4", "oid-5">>

\* lines 78-85: the document stored for one entry of INITIAL_FUNDS
FundDict(fund_data, clock) ==
    [f \in DOMAIN fund_data \cup {"created_at"} |->
        IF f = "created_at" THEN clock
        ELSE IF f = "category" /\ fund_data[f] = "FIC" THEN "FIDUCIARIO"
        ELSE fund_data[f]]

\* The funds collection is empty.
SeedInit ==
    /\ funds = [f \in {} |-> None]
    /\ users = [u \in UserIds |->
                   [balance |-> InitialBalance, subscribed_funds |-> <<>>]]
    /\ transactions = <<>>
    /\ now = 0
    /\ uuids = 0
    /\ calls = 0
    /\ pc = [p \in Procs |-> "idle"]
    /\ local = [p \in Procs |-> IdleLocal]

\* seed_funds (lines 63-89): nothing is done when the collection holds a
\* document; otherwise the five documents are inserted.  created_at is the
\* reading of the clock; nothing reads it back.
SeedFunds(p) ==
    /\ pc[p] \in {"idle", "done"}
    /\ calls < MaxCalls
    /\ calls' = calls + 1
    /\ LET loc == [IdleLocal EXCEPT !.op = "seed_funds"]
       IN  IF DOMAIN funds # {}
           THEN /\ Finish(p, loc, "Skipped")
                /\ UNCHANGED <<funds, now>>
           ELSE \E clock \in UtcNow :
                   /\ now' = clock
                   /\ funds' = [f \in {ObjectIds[i] : i \in 1..Len(INITIAL_FUNDS)} |->
                                   LET i == CHOOSE k \in 1..Len(INITIAL_FUNDS) :
                                               ObjectIds[k] = f
                                   IN  FundDict(INITIAL_FUNDS[i], clock)]
                   /\ Finish(p, loc, "Seeded")
    /\ UNCHANGED <<users, transactions, uuids>>

SeedNext ==
    \/ \E p \in Procs : SeedFunds(p)
    \/ \E p \in Procs, query \in Queries : FundRoutesGetAllFunds(p, query)
    \/ \E p \in Procs : FundsGetAllFunds(p)
    \/ \E p \in Procs, router \in {"fund_routes", "funds"}, f \in ApiFundIds :
          RouteGetFundById(p, router, f)

SeedSpec == SeedInit /\ [][SeedNext]_vars

\* C37: every fund stored by seed_funds on an empty catalog has a category
\* in {FPV, FIC}, so that each seeded fund can be read back as a Fund by the
\* catalog operations.
C37_SeededFundsReadable ==
    \A f \in DOMAIN funds :
        /\ funds[f].category \in FundCategory
        /\ Fund(funds[f]) # ValidationError

=============================================================================
